---- MODULE Spec2Model ----
(***************************************************************************)
(* Model of the live-aircraft tracking engine of the flight tracker:       *)
(* the FlightProvider of src/src/context/FlightContext.tsx (two-speed      *)
(* scan/update scheduler, locked icao24 set, arrival/departure             *)
(* classification, route lookup, track store and selection).               *)
(*                                                                         *)
(* Every asynchronous operation is split at its awaits: an "issue" part    *)
(* that runs up to the await and puts a request in `pending`, and a        *)
(* "response" part that runs from the await to the end of the handler.     *)
(* React effects that run after a state change are part of the action      *)
(* that makes the change.                                                  *)
(*                                                                         *)
(* The proxy server's caches (src/server/index.js: route cache, track      *)
(* cache) and the schedule cache of the AeroDataBox module are the second  *)
(* part of the state; their handlers are split at their awaits likewise.   *)
(***************************************************************************)
EXTENDS Integers, Sequences, FiniteSets, TLC

VARIABLES
    currentAirportId,     \* useState<AirportId>
    flights,              \* useState<Flight[]>
    flightTracks,         \* useState<Map<icao24, TrackWaypoint[]>>
    flightRoutes,         \* useState<Map<callsign, RouteInfo>>
    fetchedRoutesRef,     \* useRef<Set<callsign>>
    arrivals,             \* useState<FlightInfo[]>
    departures,           \* useState<FlightInfo[]>
    selectedFlight,       \* useState<Flight | null>
    selectedFlightTrack,  \* useState<TrackWaypoint[] | null>
    hidden,               \* document.hidden
    lockedIcaosRef,       \* useRef<Set<icao24>>
    sinceScan,            \* Date.now() - lastScanTimeRef.current, saturated
    pending,              \* requests awaiting their response
    lastOp,               \* history: the response handler or airport switch that
                          \* ran last, with its input
    now,                  \* Date.now() of the server
    routeCache,           \* Map<callsign, route record>, in key order
    routeLookups,         \* hexdb.io requests of fetchRoute awaiting a response
    trackCache,           \* Map<icao24, points>, in key order; a point is
                          \* its time
    scheduleCache,        \* Map<airportCode, {data, lastUpdate}>
    scheduleCalls,        \* AeroDataBox requests awaiting a response
    lookedUpAt,           \* history: callsign -> time of its last hexdb.io request
    calledAt,             \* history: airport -> time of its last AeroDataBox
                          \* request
    serverOp,             \* history: the server handler that ran last
    rateLimitStore,       \* Map<IP, {count, resetTime}> of the rate limiter
    accepted,             \* history: IP -> times of the requests passed on
                          \* within the last window
    call,                 \* history: the pure function applied last, with its
                          \* arguments and result
    issueOrder,           \* history: the scan and update requests in flight,
                          \* oldest first (kept where a property needs it)
    apiCallsThisMonth,    \* the AeroDataBox module's count of its calls
    hourOfMonth,          \* the hour of the calendar month
    sentThisMonth,        \* history: AeroDataBox requests sent this month
    backoff               \* the frame of a withExponentialBackoff call

clientVars == <<currentAirportId, flights, flightTracks, flightRoutes,
                fetchedRoutesRef, arrivals, departures, selectedFlight,
                selectedFlightTrack, hidden, lockedIcaosRef, sinceScan,
                pending, lastOp, issueOrder, backoff>>

serverVars == <<now, routeCache, routeLookups, trackCache, scheduleCache,
                scheduleCalls, lookedUpAt, calledAt, serverOp>>

quotaVars == <<apiCallsThisMonth, hourOfMonth, sentThisMonth>>

rateVars == <<rateLimitStore, accepted, quotaVars>>

vars == <<currentAirportId, flights, flightTracks, flightRoutes,
          fetchedRoutesRef, arrivals, departures, selectedFlight,
          selectedFlightTrack, hidden, lockedIcaosRef, sinceScan,
          pending, lastOp, now, routeCache, routeLookups, trackCache,
          scheduleCache, scheduleCalls, lookedUpAt, calledAt, serverOp,
          rateLimitStore, accepted, call, issueOrder, apiCallsThisMonth,
          hourOfMonth, sentThisMonth, backoff>>

\* null for strings, and for numbers (no heading is negative)
NULL == "null"
NoNum == -1

----------------------------------------------------------------------------
(* Bounds of the model *)

\* most requests awaiting a response at one time
MaxInFlight == 2

\* maxSize of the server's caches in the model; it stands for
\* ROUTE_CACHE_MAX_SIZE (2000) and TRACK_CACHE_MAX_SIZE (500)
MaxCacheSize == 2

\* the server's clock stops after so many route cache lifetimes
MaxHours == 1

\* ... and, stepping by minutes, after so many minutes
MaxMinutes == 12

\* steps of the server's clock of one de-duplication window each
MaxWindows == 4

\* steps of the server's clock of half a rate limiter window each
MaxHalfWindows == 4

\* RATE_LIMIT_MAX, the requests of one client passed on per window, scaled
\* down
MaxRequests == 2

\* the number of points a track buffer is to hold at most, scaled down
MaxTrackPoints == 2

\* monthlyLimit, the AeroDataBox calls allowed in a month, scaled down
MaxMonthlyCalls == 2

\* the hours of a calendar month, scaled down
MaxMonthHours == 2

\* the largest maxRetries passed to withExponentialBackoff
MaxRetries == 5

----------------------------------------------------------------------------
(* Program constants *)

RESCAN_INTERVAL == 120000
MAX_TRACK_POINTS == 30

Minute == 60 * 1000
ROUTE_CACHE_MAX_AGE == 60 * 60 * 1000
CACHE_TTL == 10 * 60 * 1000
MIN_REFRESH_INTERVAL == 5 * 60 * 1000
\* axios timeout of an AeroDataBox call
CALL_TIMEOUT == 15000
\* server/index.js: rate limiter
RATE_LIMIT_WINDOW == 60 * 1000
\* server/index.js: track buffers
TRACK_MAX_AGE == 30 * 60 * 1000
TRACK_DEDUP == 5000

\* withExponentialBackoff: baseDelay and the cap of a "Retry after" delay
BASE_DELAY == 2000
MAX_RETRY_DELAY == 120000

\* granularity of the clock of the model: a rescan interval
TimeStep == RESCAN_INTERVAL

DEFAULT_AIRPORT == "fukuoka"

AirportIds == {"fukuoka", "tokyo"}

\* config/airports.ts; codes is icao.split('/')
AIRPORTS ==
    [fukuoka |-> [icao |-> "RJFF", codes |-> {"RJFF"}],
     tokyo   |-> [icao |-> "RJTT/RJAA", codes |-> {"RJTT", "RJAA"}]]

----------------------------------------------------------------------------
(* Inputs: the aircraft, positions and feed records the model draws from *)

ICAO == {"a1", "b2"}

\* String.prototype.toUpperCase on the icao24 values of the model
ToUpperCase(s) ==
    CASE s = "a1" -> "A1"
      [] s = "b2" -> "B2"
      [] OTHER -> s

\* String.prototype.trim on the raw callsigns of the model
Trim(s) ==
    CASE s = "JAL910 " -> "JAL910"
      [] s = " " -> ""
      [] OTHER -> s

\* s?.trim() || dflt : null, undefined and the empty string are falsy
TrimOr(s, dflt) == IF s = NULL \/ Trim(s) = "" THEN dflt ELSE Trim(s)

\* Sample positions (latitude, longitude): S = (33.0, 130.451) due south of
\* Fukuoka, N = (34.0, 130.451) due north of it.
Positions == {"S", "N"}

\* getNearestAirportCoords + the bearing formula of isHeadingTowards,
\* evaluated at the sample positions and rounded to whole degrees
\* (tokyo: nearest sub-airport is Haneda for both samples).
BearingTo(pos, airportId) ==
    CASE airportId = "fukuoka" /\ pos = "S" -> 0
      [] airportId = "fukuoka" /\ pos = "N" -> 180
      [] airportId = "tokyo"   /\ pos = "S" -> 69
      [] airportId = "tokyo"   /\ pos = "N" -> 76

\* getNearestAirportCoords + getDistance, Math.round(distance * 1000)
DistanceTo(pos, airportId) ==
    CASE airportId = "fukuoka" /\ pos = "S" -> 65149
      [] airportId = "fukuoka" /\ pos = "N" -> 46046
      [] airportId = "tokyo"   /\ pos = "S" -> 902628
      [] airportId = "tokyo"   /\ pos = "N" -> 869117

\* The state records a feed response can carry for an aircraft:
\* pos stands for (latitude, longitude, baro_altitude, velocity), which the
\* handlers copy together; pos = NULL is latitude/longitude null.
FeedState(icao, callsign, pos, track, ground) ==
    [icao24 |-> icao, callsign |-> callsign, pos |-> pos,
     true_track |-> track, on_ground |-> ground]

FeedStates(icao) ==
    IF icao = "a1"
    THEN { FeedState("a1", "JAL910 ", "S", 10, FALSE),
           FeedState("a1", "JAL910 ", "N", 10, FALSE),
           FeedState("a1", "JAL910 ", "S", 10, TRUE) }
    ELSE { FeedState("b2", NULL, "N", NoNum, FALSE),
           FeedState("b2", "ANA242", "S", 10, FALSE),
           FeedState("b2", "ANA242", NULL, NoNum, FALSE) }

\* A feed response: a list of state records, one per aircraft at most
\* (icao24 is the identity key of a record).
FeedResponses ==
    {<<>>}
    \cup { <<s>> : s \in FeedStates("a1") \cup FeedStates("b2") }
    \cup { <<s, t>> : s \in FeedStates("a1"), t \in FeedStates("b2") }

----------------------------------------------------------------------------
(* Pure helpers *)

Abs(x) == IF x < 0 THEN 0 - x ELSE x
Min(x, y) == IF x < y THEN x ELSE y

\* Array.prototype.map
Map(s, F(_)) == [i \in 1..Len(s) |-> F(s[i])]

IcaoSet(fs) == { fs[i].icao24 : i \in 1..Len(fs) }

NoFlight ==
    [icao24 |-> NULL, callsign |-> NULL, pos |-> NULL, heading |-> NoNum,
     onGround |-> FALSE]

\* flights.find(f => f.icao24 === icao): the first match, or null
FindFlight(fs, icao) ==
    IF \E i \in 1..Len(fs) : fs[i].icao24 = icao
    THEN fs[CHOOSE i \in 1..Len(fs) :
                /\ fs[i].icao24 = icao
                /\ \A j \in 1..(i - 1) : fs[j].icao24 # icao]
    ELSE NoFlight

\* the object literal scanAircraft and refreshData build from an adsb.lol state
AdsbToFlight(state) ==
    [icao24 |-> state.icao24,
     callsign |-> TrimOr(state.callsign, NULL),
     pos |-> state.pos,
     heading |-> state.true_track,
     onGround |-> state.on_ground]

convertStateVectorToFlight(state) ==
    [icao24 |-> state.icao24,
     callsign |-> TrimOr(state.callsign, NULL),
     pos |-> state.pos,
     heading |-> state.true_track,
     onGround |-> state.on_ground]

HasPosition(state) == state.pos # NULL
Airborne(state) == ~state.on_ground
AirborneWithPosition(state) == HasPosition(state) /\ Airborne(state)

\* .filter(latitude/longitude non-null).filter(!on_ground).map(...)
ScanFlightData(states) ==
    Map(SelectSeq(states, AirborneWithPosition), AdsbToFlight)

\* .map(parseStateArray).filter(latitude/longitude non-null)
\*  .map(convertStateVectorToFlight)
OpenSkyFlightData(states) ==
    Map(SelectSeq(states, HasPosition), convertStateVectorToFlight)

----------------------------------------------------------------------------
(* Classification effect *)

matchesAirport(icao, airportId) ==
    icao # NULL /\ icao \in AIRPORTS[airportId].codes

\* variant of angleDiff: the difference is not wrapped
angleDiffNoWrap(heading, bearing) == Abs(heading - bearing)

\* const diff = Math.abs(heading - bearing);
\* const angleDiff = diff > 180 ? 360 - diff : diff;
angleDiff(heading, bearing) ==
    LET diff == Abs(heading - bearing)
    IN  IF diff > 180 THEN 360 - diff ELSE diff

\* "null" when the heading is null, else "true" / "false"
isHeadingTowards(pos, heading, airportId) ==
    IF heading = NoNum THEN NULL
    ELSE IF angleDiff(heading, BearingTo(pos, airportId)) < 60
         THEN "true" ELSE "false"

HasRoute(flight, routes) ==
    flight.callsign # NULL /\ flight.callsign \in DOMAIN routes

\* variant of ClassifyFlight: the heading rule consulted before the route
ClassifyFlightHeadingFirst(flight, routes, airportId) ==
    LET headingTowards ==
            isHeadingTowards(flight.pos, flight.heading, airportId)
    IN  IF headingTowards = "true" THEN "arrival"
        ELSE IF headingTowards = "false" THEN "departure"
        ELSE IF HasRoute(flight, routes)
                /\ matchesAirport(routes[flight.callsign].origin, airportId)
                /\ ~matchesAirport(routes[flight.callsign].destination,
                                   airportId)
             THEN "departure"
             ELSE "arrival"

\* variant of ClassifyFlight: an unknown heading counts as heading away
ClassifyFlightDefaultDeparture(flight, routes, airportId) ==
    LET headingTowards ==
            isHeadingTowards(flight.pos, flight.heading, airportId)
        byRoute ==
            IF HasRoute(flight, routes)
            THEN LET route == routes[flight.callsign]
                 IN  IF matchesAirport(route.destination, airportId)
                     THEN "arrival"
                     ELSE IF matchesAirport(route.origin, airportId)
                          THEN "departure"
                          ELSE NULL
            ELSE NULL
    IN  IF byRoute # NULL THEN byRoute
        ELSE IF headingTowards = "true" THEN "arrival"
        ELSE "departure"

\* "arrival" or "departure": the list the forEach body pushes the flight to
ClassifyFlight(flight, routes, airportId) ==
    LET headingTowards ==
            isHeadingTowards(flight.pos, flight.heading, airportId)
        byRoute ==
            IF HasRoute(flight, routes)
            THEN LET route == routes[flight.callsign]
                 IN  IF matchesAirport(route.destination, airportId)
                     THEN "arrival"
                     ELSE IF matchesAirport(route.origin, airportId)
                          THEN "departure"
                          ELSE NULL
            ELSE NULL
    IN  IF byRoute # NULL THEN byRoute
        ELSE IF headingTowards = "true" THEN "arrival"
        ELSE IF headingTowards = "false" THEN "departure"
        ELSE "arrival"

\* the FlightInfo pushed for the flight (the fields the lists are read by)
MakeFlightInfo(flight, routes, airportId) ==
    LET has == HasRoute(flight, routes)
        origin == IF has THEN routes[flight.callsign].origin ELSE NULL
        destination ==
            IF has THEN routes[flight.callsign].destination ELSE NULL
        kind == ClassifyFlight(flight, routes, airportId)
        routed == has /\ (matchesAirport(destination, airportId)
                           \/ matchesAirport(origin, airportId))
    IN  [icao24 |-> flight.icao24,
         callsign |-> IF flight.callsign # NULL THEN flight.callsign
                      ELSE ToUpperCase(flight.icao24),
         estDepartureAirport |->
            IF ~routed /\ kind = "departure"
            THEN AIRPORTS[airportId].icao ELSE origin,
         estArrivalAirport |->
            IF routed THEN destination
            ELSE IF destination # NULL THEN destination
                 ELSE AIRPORTS[airportId].icao,
         horizDistance |-> DistanceTo(flight.pos, airportId)]

\* Array.prototype.sort by horizontal distance (a stable sort)
RECURSIVE InsertByDistance(_, _)
InsertByDistance(x, s) ==
    IF s = <<>> THEN <<x>>
    ELSE IF x.horizDistance < s[Len(s)].horizDistance
         THEN Append(InsertByDistance(x, SubSeq(s, 1, Len(s) - 1)), s[Len(s)])
         ELSE Append(s, x)

RECURSIVE SortByDistance(_)
SortByDistance(s) ==
    IF s = <<>> THEN <<>>
    ELSE InsertByDistance(s[Len(s)], SortByDistance(SubSeq(s, 1, Len(s) - 1)))

\* the list of the given kind that the classification effect sets
Inferred(kind, fs, routes, airportId) ==
    LET IsKind(f) == ClassifyFlight(f, routes, airportId) = kind
        Info(f) == MakeFlightInfo(f, routes, airportId)
    IN  IF Len(fs) = 0 THEN <<>>
        ELSE SortByDistance(Map(SelectSeq(fs, IsKind), Info))

\* The classification effect of the earlier FlightProvider in the same file.
\* inRange: getDistance to the airport's own coordinates < radiusKm
\* (fukuoka: 65 km and 46 km < 100; tokyo: 932 km and 898 km >= 120)
inRangeEarlier(pos, airportId) == airportId = "fukuoka"

\* "arrival", "departure", or "null" when the forEach body pushes the flight
\* to neither list. Without a route and in range every branch pushes:
\* isArrival and the default give arrival, isDeparture (distance < 20 km)
\* holds for no position here.
ClassifyFlightEarlier(flight, routes, airportId) ==
    IF flight.callsign = NULL THEN NULL
    ELSE IF flight.callsign \in DOMAIN routes
    THEN LET route == routes[flight.callsign]
         IN  IF matchesAirport(route.destination, airportId) THEN "arrival"
             ELSE IF matchesAirport(route.origin, airportId)
                  THEN "departure"
                  ELSE IF inRangeEarlier(flight.pos, airportId)
                       THEN "arrival" ELSE NULL
    ELSE IF inRangeEarlier(flight.pos, airportId) THEN "arrival" ELSE NULL

\* the icao24s of the list of the given kind that the earlier effect sets
\* (before its sort)
InferredEarlier(kind, fs, routes, airportId) ==
    LET IsKind(f) == ClassifyFlightEarlier(f, routes, airportId) = kind
        Icao(f) == f.icao24
    IN  IF Len(fs) = 0 THEN <<>> ELSE Map(SelectSeq(fs, IsKind), Icao)

\* variant of SyncSelected: the selection is kept as it is
SyncSelectedKept(sel, fs) ==
    sel

\* selection sync effect, run when flights was set
SyncSelected(sel, fs) ==
    IF sel.icao24 = NULL THEN sel ELSE FindFlight(fs, sel.icao24)

----------------------------------------------------------------------------
(* Requests and responses *)

\* a request awaiting its response; airport is the airport that was current
\* when the handler that issued it started. pending is the multiset of the
\* requests in flight (responses arrive in any order): n numbers the copies
\* of one request.
Req(kind, airportId) ==
    [kind |-> kind, airport |-> airportId, callsigns |-> {}, icao |-> NULL,
     n |-> 1]

ReqRoutes(kind, airportId, callsigns) ==
    [kind |-> kind, airport |-> airportId, callsigns |-> callsigns,
     icao |-> NULL, n |-> 1]

ReqTrack(airportId, icao) ==
    [kind |-> "track", airport |-> airportId, callsigns |-> {},
     icao |-> icao, n |-> 1]

Copies(P, r) == { q \in P : [q EXCEPT !.n = 1] = [r EXCEPT !.n = 1] }

Add(P, r) == P \cup {[r EXCEPT !.n = Cardinality(Copies(P, r)) + 1]}

\* P with the requests of the list reqs added
RECURSIVE Issue(_, _)
Issue(P, reqs) ==
    IF reqs = <<>> THEN P ELSE Issue(Add(P, Head(reqs)), Tail(reqs))

\* one representative of each request in flight
Awaiting(P) == { q \in P : q.n = Cardinality(Copies(P, q)) }

Remove(P, q) == P \ {q}

Op(kind, airportId, ok, resp) ==
    [kind |-> kind, airport |-> airportId, ok |-> ok, resp |-> resp]

\* lastOp after a step that is no response handler and no airport switch
NoOp == Op("none", NULL, TRUE, <<>>)

\* issueOrder where the order of the requests is not kept
Unrecorded == <<"unrecorded">>

\* issueOrder after the requests reqs were issued
Issued(order, reqs) ==
    IF order = Unrecorded THEN order
    ELSE order \o [k \in 1..Len(reqs) |-> reqs[k].kind]

\* the places of issueOrder that a response to a request of this kind can
\* belong to; "overtaken" is an update request issued before a rescan whose
\* response has been written since
Answers(order, kind) ==
    IF order = Unrecorded THEN {0}
    ELSE { k \in 1..Len(order) :
             \/ order[k] = kind
             \/ kind = "update" /\ order[k] = "overtaken" }

\* issueOrder after the request at place k was answered, wrote telling that
\* the answer was a rescan that replaced the aircraft list
Answered(order, k, wrote) ==
    IF order = Unrecorded THEN order
    ELSE LET marked == [j \in 1..Len(order) |->
                          IF wrote /\ j < k /\ order[j] = "update"
                          THEN "overtaken" ELSE order[j]]
         IN  SubSeq(marked, 1, k - 1) \o SubSeq(marked, k + 1, Len(marked))

\* the update requests in flight that a later rescan has overtaken
Overtaken(order) ==
    Cardinality({ k \in 1..Len(order) : order[k] = "overtaken" })

\* fetchAllTracks(), called when its effect re-runs and by its interval:
\* the requests it adds
fetchAllTracks(isHidden, locked, airportId) ==
    IF isHidden \/ locked = {} THEN <<>> ELSE <<Req("tracks", airportId)>>

\* scanAircraft() up to its await: the requests it adds
scanAircraftIssue(isHidden, airportId) ==
    IF isHidden THEN <<>> ELSE <<Req("scan", airportId)>>

\* updatePositions() up to its await: the requests it adds
updatePositionsIssue(isHidden, locked, airportId) ==
    IF isHidden \/ locked = {} THEN <<>> ELSE <<Req("update", airportId)>>

\* the classification effect: arrivals and departures follow flights,
\* flightRoutes and currentAirport
Classified ==
    /\ arrivals' = Inferred("arrival", flights', flightRoutes',
                            currentAirportId')
    /\ departures' = Inferred("departure", flights', flightRoutes',
                              currentAirportId')

\* the effects that depend on flights, run after setFlights: selection sync
\* and classification; rest is pending without the request being answered.
\* (The track effect also re-runs; its fetchAllTracks() is fetchAllTracksTick.)
AfterSetFlights(rest) ==
    /\ selectedFlight' = SyncSelected(selectedFlight, flights')
    /\ selectedFlightTrack' =
          IF selectedFlight.icao24 # NULL /\ selectedFlight'.icao24 = NULL
          THEN NoNum ELSE selectedFlightTrack
    /\ Classified
    /\ pending' = rest

----------------------------------------------------------------------------
(* withExponentialBackoff (src/unnamed/part_006; services/opensky.ts and
   part_007 differ in the delays only) *)

\* the errors fn can throw: message and the seconds of "Retry after"
Error(message, retrySeconds) ==
    [message |-> message, retrySeconds |-> retrySeconds]
NoError == Error("none", 0)
FnErrors ==
    {Error("Network Error", 0), Error("Rate limited", 0),
     Error("Rate limited", 200)}

\* no call of withExponentialBackoff yet
NoBackoff ==
    [pc |-> "idle", maxRetries |-> 0, attempt |-> 0, calls |-> 0,
     errors |-> <<>>, delay |-> 0, result |-> 0, thrown |-> NoError]

RECURSIVE Pow2(_)
Pow2(n) == IF n = 0 THEN 1 ELSE 2 * Pow2(n - 1)

\* the delay before the next attempt
RetryDelay(error, attempt) ==
    IF error.message = "Rate limited" /\ error.retrySeconds # 0
    THEN Min(error.retrySeconds * 1000, MAX_RETRY_DELAY)
    ELSE BASE_DELAY * Pow2(attempt)

\* variant of RetriesExhausted: one more attempt
RetriesExhaustedLate(attempt, maxRetries) ==
    attempt > maxRetries

\* the test after attempt++ in the catch block
RetriesExhausted(attempt, maxRetries) ==
    attempt >= maxRetries

\* the head of the while loop: fn() is called, or the loop is left
LoopHead(frame) ==
    IF frame.attempt < frame.maxRetries
    THEN [frame EXCEPT !.pc = "calling", !.calls = @ + 1]
    ELSE [frame EXCEPT !.pc = "thrown",
                       !.thrown = Error("Max retries exceeded", 0)]

BackoffFrame ==
    UNCHANGED <<currentAirportId, flights, flightTracks, flightRoutes,
                fetchedRoutesRef, arrivals, departures, selectedFlight,
                selectedFlightTrack, hidden, lockedIcaosRef, sinceScan,
                pending, lastOp, issueOrder, serverVars, rateVars, call>>

\* withExponentialBackoff(fn, maxRetries) up to its first await
withExponentialBackoff(maxRetries) ==
    /\ backoff.pc = "idle"
    /\ backoff' = LoopHead([backoff EXCEPT !.maxRetries = maxRetries])
    /\ BackoffFrame

\* await fn() resolves: its value is returned (the value of the n-th call
\* is n)
fnResolves ==
    /\ backoff.pc = "calling"
    /\ backoff' = [backoff EXCEPT !.pc = "returned",
                                 !.result = backoff.calls]
    /\ BackoffFrame

\* await fn() rejects: the catch block up to its throw or its await
fnRejects(error) ==
    /\ backoff.pc = "calling"
    /\ LET attempt == backoff.attempt + 1
           caught == [backoff EXCEPT !.attempt = attempt,
                                     !.errors = Append(@, error)]
       IN  backoff' =
              IF RetriesExhausted(attempt, backoff.maxRetries)
              THEN [caught EXCEPT !.pc = "thrown", !.thrown = error]
              ELSE [caught EXCEPT !.pc = "waiting",
                                  !.delay = RetryDelay(error, attempt)]
    /\ BackoffFrame

\* the setTimeout of the delay fires: the loop goes round
delayEnds ==
    /\ backoff.pc = "waiting"
    /\ backoff' = LoopHead(backoff)
    /\ BackoffFrame

----------------------------------------------------------------------------
(* Initial state: FlightProvider mounted, initial scanAircraft() issued *)

\* the server's state after module load
Callsigns == {"JAL910", "ANA242", "SKY7"}
TrackIcaos == {"a1", "b2", "c3"}
ScheduleAirports == {"FUK"}

\* the clients (req.ip) of the rate limiter
Clients == {"ip1", "ip2"}

\* no function applied yet
NoCall == [fn |-> "none", args |-> <<>>, result |-> NULL]

NoServerOp ==
    [op |-> "none", key |-> NULL, hit |-> FALSE, upstream |-> FALSE,
     data |-> NULL, age |-> NoNum, forced |-> FALSE]

InitServer ==
    /\ now = 0
    /\ routeCache = <<>>
    /\ routeLookups = {}
    /\ trackCache = <<>>
    /\ scheduleCache = <<>>
    /\ scheduleCalls = {}
    /\ lookedUpAt = [cs \in Callsigns |-> NoNum]
    /\ calledAt = [airport \in ScheduleAirports |-> NoNum]
    /\ serverOp = NoServerOp
    /\ rateLimitStore = <<>>
    /\ accepted = [ip \in Clients |-> <<>>]
    /\ call = NoCall
    /\ apiCallsThisMonth = 0
    /\ hourOfMonth = 0
    /\ sentThisMonth = 0

InitProvider ==
    /\ backoff = NoBackoff
    /\ currentAirportId = DEFAULT_AIRPORT
    /\ flights = <<>>
    /\ flightTracks = <<>>
    /\ flightRoutes = <<>>
    /\ fetchedRoutesRef = {}
    /\ arrivals = <<>>
    /\ departures = <<>>
    /\ selectedFlight = NoFlight
    /\ selectedFlightTrack = NoNum
    /\ hidden \in BOOLEAN
    /\ lockedIcaosRef = {}
    /\ sinceScan = 0
    /\ pending = Issue({}, scanAircraftIssue(hidden, DEFAULT_AIRPORT))
    /\ lastOp = NoOp

Init ==
    /\ InitProvider
    /\ InitServer
    /\ issueOrder = Unrecorded

\* the same state with the order of the poll requests kept
InitOrder ==
    /\ InitProvider
    /\ InitServer
    /\ issueOrder = [k \in 1..Cardinality(pending) |-> "scan"]

----------------------------------------------------------------------------
(* Clock and visibility *)

AdvanceTime ==
    /\ sinceScan < RESCAN_INTERVAL
    /\ sinceScan' = Min(sinceScan + TimeStep, RESCAN_INTERVAL)
    /\ lastOp' = NoOp
    /\ UNCHANGED <<serverVars, rateVars, call, issueOrder, backoff>>
    /\ UNCHANGED <<currentAirportId, flights, flightTracks, flightRoutes,
                   fetchedRoutesRef, arrivals, departures, selectedFlight,
                   selectedFlightTrack, hidden, lockedIcaosRef, pending>>

\* visibilitychange: isPageVisible follows document.hidden
handleVisibilityChange ==
    /\ hidden' = ~hidden
    /\ pending' = pending
    /\ lastOp' = NoOp
    /\ UNCHANGED <<serverVars, rateVars, call, issueOrder, backoff>>
    /\ UNCHANGED <<currentAirportId, flights, flightTracks, flightRoutes,
                   fetchedRoutesRef, arrivals, departures, selectedFlight,
                   selectedFlightTrack, lockedIcaosRef, sinceScan>>

----------------------------------------------------------------------------
(* Scan / update scheduler *)

\* the setInterval callback of the polling effect
TimerTick ==
    /\ ~hidden
    /\ lockedIcaosRef # {}
    /\ IF sinceScan >= RESCAN_INTERVAL
       THEN /\ pending' = Issue(pending,
                                  scanAircraftIssue(hidden, currentAirportId))
            /\ issueOrder' =
                  Issued(issueOrder,
                         scanAircraftIssue(hidden, currentAirportId))
            /\ sinceScan' = 0
       ELSE /\ pending' = Issue(pending,
                                  updatePositionsIssue(hidden, lockedIcaosRef,
                                                       currentAirportId))
            /\ issueOrder' =
                  Issued(issueOrder,
                         updatePositionsIssue(hidden, lockedIcaosRef,
                                              currentAirportId))
            /\ sinceScan' = sinceScan
    /\ Cardinality(pending') <= MaxInFlight
    /\ lastOp' = Op("timer", currentAirportId, TRUE, <<>>)
    /\ UNCHANGED <<serverVars, rateVars, call, backoff>>
    /\ UNCHANGED <<currentAirportId, flights, flightTracks, flightRoutes,
                   fetchedRoutesRef, arrivals, departures, selectedFlight,
                   selectedFlightTrack, hidden, lockedIcaosRef>>

\* manualRescan: scanAircraft called by a consumer
manualRescan ==
    /\ ~hidden
    /\ pending' = Issue(pending, scanAircraftIssue(hidden, currentAirportId))
    /\ issueOrder' =
          Issued(issueOrder, scanAircraftIssue(hidden, currentAirportId))
    /\ Cardinality(pending') <= MaxInFlight
    /\ lastOp' = NoOp
    /\ UNCHANGED <<serverVars, rateVars, call, backoff>>
    /\ UNCHANGED <<currentAirportId, flights, flightTracks, flightRoutes,
                   fetchedRoutesRef, arrivals, departures, selectedFlight,
                   selectedFlightTrack, hidden, lockedIcaosRef, sinceScan>>

\* variant of ScanOutcome: a rescan merged into the tracked set
ScanOutcomeMerge(ok, flightData, prevFlights, prevLocked) ==
    IF ok /\ Len(flightData) > 0
    THEN LET IsNew(f) == f.icao24 \notin IcaoSet(prevFlights)
         IN  [replaced |-> TRUE,
              locked |-> prevLocked \cup IcaoSet(flightData),
              flights |-> prevFlights \o SelectSeq(flightData, IsNew)]
    ELSE [replaced |-> FALSE, locked |-> prevLocked, flights |-> prevFlights]

\* variant of ScanOutcome: an empty or failed rescan clears the list
ScanOutcomeClear(ok, flightData, prevFlights, prevLocked) ==
    IF ok /\ Len(flightData) > 0
    THEN [replaced |-> TRUE, locked |-> IcaoSet(flightData),
          flights |-> flightData]
    ELSE [replaced |-> TRUE, locked |-> prevLocked, flights |-> <<>>]

\* what scanAircraft writes for a response: with flightData.length > 0 the
\* locked set and the list are replaced, otherwise nothing is written
ScanOutcome(ok, flightData, prevFlights, prevLocked) ==
    IF ok /\ Len(flightData) > 0
    THEN [replaced |-> TRUE, locked |-> IcaoSet(flightData),
          flights |-> flightData]
    ELSE [replaced |-> FALSE, locked |-> prevLocked, flights |-> prevFlights]

\* scanAircraft from its await on; ok = FALSE is a null response
\* (network failure or timeout)
scanAircraft(q, ok, states) ==
    /\ q.kind = "scan"
    /\ lastOp' = Op("scan", q.airport, ok, states)
    /\ UNCHANGED <<serverVars, rateVars, call, backoff>>
    /\ LET out == ScanOutcome(ok, ScanFlightData(states), flights,
                              lockedIcaosRef)
       IN  \E k \in Answers(issueOrder, "scan") :
               issueOrder' = Answered(issueOrder, k, out.replaced)
    /\ LET out == ScanOutcome(ok, ScanFlightData(states), flights,
                              lockedIcaosRef)
       IN  IF out.replaced
           THEN /\ lockedIcaosRef' = out.locked
                /\ sinceScan' = 0
                /\ flights' = out.flights
                /\ UNCHANGED <<currentAirportId, flightTracks, flightRoutes,
                               fetchedRoutesRef, hidden>>
                /\ AfterSetFlights(Remove(pending, q))
           ELSE /\ pending' = Remove(pending, q)
                /\ UNCHANGED <<currentAirportId, flights, flightTracks,
                               flightRoutes, fetchedRoutesRef, arrivals,
                               departures, selectedFlight,
                               selectedFlightTrack, hidden, lockedIcaosRef,
                               sinceScan>>

\* newPositions: the response's states of locked aircraft, by icao24
NewPositions(states, locked) ==
    { states[k] : k \in { j \in 1..Len(states) :
                             states[j].icao24 \in locked } }

\* variant of ApplyPositions: aircraft missing from the response are dropped
\* and locked aircraft new to the list are added
ApplyPositionsResync(prev, states, locked) ==
    LET newPositions == NewPositions(states, locked)
        Present(s) == s.icao24 \in locked /\ s.pos # NULL
    IN  Map(SelectSeq(states, Present), AdsbToFlight)

\* variant of ApplyPositions: an aircraft missing from the response loses
\* its position
ApplyPositionsClearMissing(prev, states, locked) ==
    LET newPositions == NewPositions(states, locked)
        Updated(flight) ==
            IF \E u \in newPositions :
                  u.icao24 = flight.icao24 /\ u.pos # NULL
            THEN LET updated == CHOOSE u \in newPositions :
                                   u.icao24 = flight.icao24
                 IN  [flight EXCEPT
                        !.pos = updated.pos,
                        !.heading = updated.true_track,
                        !.callsign = TrimOr(updated.callsign,
                                            flight.callsign)]
            ELSE [flight EXCEPT !.heading = NoNum]
    IN  Map(prev, Updated)

\* the setFlights(prev => prev.map(...)) updater of updatePositions
ApplyPositions(prev, states, locked) ==
    LET newPositions == NewPositions(states, locked)
        Updated(flight) ==
            IF \E u \in newPositions :
                  u.icao24 = flight.icao24 /\ u.pos # NULL
            THEN LET updated == CHOOSE u \in newPositions :
                                   u.icao24 = flight.icao24
                 IN  [flight EXCEPT
                        !.pos = updated.pos,
                        !.heading = updated.true_track,
                        !.callsign = TrimOr(updated.callsign,
                                            flight.callsign)]
            ELSE flight
    IN  Map(prev, Updated)

\* updatePositions from its await on
updatePositions(q, ok, states) ==
    /\ q.kind = "update"
    /\ lastOp' = Op("update", q.airport, ok, states)
    /\ UNCHANGED <<serverVars, rateVars, call, backoff>>
    /\ \E k \in Answers(issueOrder, "update") :
          issueOrder' = Answered(issueOrder, k, FALSE)
    /\ IF ok
       THEN /\ flights' = ApplyPositions(flights, states, lockedIcaosRef)
            /\ UNCHANGED <<currentAirportId, flightTracks, flightRoutes,
                           fetchedRoutesRef, hidden, lockedIcaosRef,
                           sinceScan>>
            /\ AfterSetFlights(Remove(pending, q))
       ELSE /\ pending' = Remove(pending, q)
            /\ UNCHANGED <<currentAirportId, flights, flightTracks,
                           flightRoutes, fetchedRoutesRef, arrivals,
                           departures, selectedFlight, selectedFlightTrack,
                           hidden, lockedIcaosRef, sinceScan>>

----------------------------------------------------------------------------
(* Manual refresh and map-bounds fetch *)

\* refreshData up to its first await (adsb.lol)
refreshData ==
    /\ pending' = Add(pending, Req("refreshAdsb", currentAirportId))
    /\ Cardinality(pending') <= MaxInFlight
    /\ lastOp' = NoOp
    /\ UNCHANGED <<serverVars, rateVars, call, issueOrder, backoff>>
    /\ UNCHANGED <<currentAirportId, flights, flightTracks, flightRoutes,
                   fetchedRoutesRef, arrivals, departures, selectedFlight,
                   selectedFlightTrack, hidden, lockedIcaosRef, sinceScan>>

\* refreshData from the adsb.lol response to its end or to the await of the
\* OpenSky fallback
refreshDataAdsb(q, ok, states) ==
    /\ q.kind = "refreshAdsb"
    /\ lastOp' = Op("refreshAdsb", q.airport, ok, <<>>)
    /\ UNCHANGED <<serverVars, rateVars, call, issueOrder, backoff>>
    /\ IF ok
       THEN /\ flights' = ScanFlightData(states)
            /\ UNCHANGED <<currentAirportId, flightTracks, flightRoutes,
                           fetchedRoutesRef, hidden, lockedIcaosRef,
                           sinceScan>>
            /\ AfterSetFlights(Remove(pending, q))
       ELSE /\ pending' = Add(Remove(pending, q),
                              Req("refreshOpenSky", q.airport))
            /\ UNCHANGED <<currentAirportId, flights, flightTracks,
                           flightRoutes, fetchedRoutesRef, arrivals,
                           departures, selectedFlight, selectedFlightTrack,
                           hidden, lockedIcaosRef, sinceScan>>

\* refreshData from the OpenSky response on
refreshDataOpenSky(q, ok, states) ==
    /\ q.kind = "refreshOpenSky"
    /\ lastOp' = Op("refreshOpenSky", q.airport, ok, <<>>)
    /\ UNCHANGED <<serverVars, rateVars, call, issueOrder, backoff>>
    /\ flights' = IF ok THEN OpenSkyFlightData(states) ELSE <<>>
    /\ UNCHANGED <<currentAirportId, flightTracks, flightRoutes,
                   fetchedRoutesRef, hidden, lockedIcaosRef, sinceScan>>
    /\ AfterSetFlights(Remove(pending, q))

\* fetchFlightsInBounds up to its await
fetchFlightsInBounds ==
    /\ pending' = Add(pending, Req("bounds", currentAirportId))
    /\ Cardinality(pending') <= MaxInFlight
    /\ lastOp' = NoOp
    /\ UNCHANGED <<serverVars, rateVars, call, issueOrder, backoff>>
    /\ UNCHANGED <<currentAirportId, flights, flightTracks, flightRoutes,
                   fetchedRoutesRef, arrivals, departures, selectedFlight,
                   selectedFlightTrack, hidden, lockedIcaosRef, sinceScan>>

\* fetchFlightsInBounds from its await on
fetchFlightsInBoundsResponse(q, ok, states) ==
    /\ q.kind = "bounds"
    /\ lastOp' = Op("bounds", q.airport, ok, <<>>)
    /\ UNCHANGED <<serverVars, rateVars, call, issueOrder, backoff>>
    /\ flights' = IF ok THEN OpenSkyFlightData(states) ELSE <<>>
    /\ UNCHANGED <<currentAirportId, flightTracks, flightRoutes,
                   fetchedRoutesRef, hidden, lockedIcaosRef, sinceScan>>
    /\ AfterSetFlights(Remove(pending, q))

----------------------------------------------------------------------------
(* Airport switch *)

\* setCurrentAirport, with the effects its state changes trigger:
\* classification, and the initial-scan effect when scanAircraft changed
\* (the airport changed)
setCurrentAirport(airportId) ==
    /\ flights' = <<>>
    /\ flightTracks' = <<>>
    /\ flightRoutes' = <<>>
    /\ fetchedRoutesRef' = {}
    /\ selectedFlight' = NoFlight
    /\ selectedFlightTrack' = NoNum
    /\ currentAirportId' = airportId
    /\ Classified
    /\ pending' = Issue(pending,
                         IF airportId # currentAirportId
                         THEN scanAircraftIssue(hidden, airportId) ELSE <<>>)
    /\ Cardinality(pending') <= MaxInFlight
    /\ lastOp' = Op("setCurrentAirport", currentAirportId, TRUE, <<>>)
    /\ UNCHANGED <<serverVars, rateVars, call, issueOrder, backoff>>
    /\ UNCHANGED <<hidden, lockedIcaosRef, sinceScan>>

----------------------------------------------------------------------------
(* Route lookup effect *)

\* the routes HexDB can hold for a callsign: none, RJTT-RJFF, RJAA-RJTT
NoRouteInfo == [origin |-> NULL, destination |-> NULL]

RouteInfos(cs) ==
    IF cs \in {"JAL910", "ANA242"}
    THEN {NoRouteInfo,
          [origin |-> "RJTT", destination |-> "RJFF"],
          [origin |-> "RJAA", destination |-> "RJTT"]}
    ELSE {NoRouteInfo}

\* responses of GET /routes: one RouteInfo per requested callsign
RouteResponses(callsigns) ==
    { r \in [callsigns -> UNION { RouteInfos(cs) : cs \in callsigns }] :
        \A cs \in callsigns : r[cs] \in RouteInfos(cs) }

\* a schedule match of the airport scraper: none, or a flight found in the
\* FUK schedule (its destination field is an AirportInfo object)
ScraperMatches(cs) ==
    IF cs \in {"JAL910", "ANA242"} THEN {NULL, "FUK"} ELSE {NULL}

ScraperResponses(callsigns) ==
    { r \in [callsigns -> {NULL, "FUK"}] :
        \A cs \in callsigns : r[cs] \in ScraperMatches(cs) }

\* the RouteInfo built from a scraper match
ScraperRoute(airport) ==
    [origin |-> IF airport = "FUK" THEN "RJFF" ELSE "RJ" \o airport,
     destination |-> "[object AirportInfo]"]

\* callsignsToFetch, de-duplicated
uniqueCallsigns ==
    { flights[k].callsign : k \in { j \in 1..Len(flights) :
          /\ flights[j].callsign # NULL
          /\ flights[j].callsign \notin fetchedRoutesRef } }
    \cup { Trim(arrivals[k].callsign) : k \in { j \in 1..Len(arrivals) :
          Trim(arrivals[j].callsign) \notin fetchedRoutesRef \cup {""} } }
    \cup { Trim(departures[k].callsign) : k \in { j \in 1..Len(departures) :
          Trim(departures[j].callsign) \notin fetchedRoutesRef \cup {""} } }

\* fetchRoutes up to its first await (HexDB), run by the 1 s timeout that
\* every change of flights, arrivals or departures restarts
fetchRoutes ==
    /\ uniqueCallsigns # {}
    /\ fetchedRoutesRef' = fetchedRoutesRef \cup uniqueCallsigns
    /\ pending' = Add(pending,
          ReqRoutes("routes", currentAirportId, uniqueCallsigns))
    /\ Cardinality(pending') <= MaxInFlight
    /\ lastOp' = NoOp
    /\ UNCHANGED <<serverVars, rateVars, call, issueOrder, backoff>>
    /\ UNCHANGED <<currentAirportId, flights, flightTracks, flightRoutes,
                   arrivals, departures, selectedFlight,
                   selectedFlightTrack, hidden, lockedIcaosRef, sinceScan>>

\* the callsigns of a HexDB response that carry an origin or a destination
WithRoute(routes) ==
    { cs \in DOMAIN routes :
        routes[cs].origin # NULL \/ routes[cs].destination # NULL }

\* new Map(prev) with the given entries set
MapSet(prev, keys, Value(_)) ==
    [cs \in DOMAIN prev \cup keys |->
        IF cs \in keys THEN Value(cs) ELSE prev[cs]]

\* fetchRoutes from the HexDB response to its end or to the await of the
\* airport scraper. foundCallsigns is filled inside the setFlightRoutes
\* updater: eager says whether React ran the updater before the next
\* statement read foundCallsigns.
fetchRoutesHexDB(q, ok, routes, eager) ==
    /\ q.kind = "routes"
    /\ lastOp' = Op("routes", q.airport, ok, <<>>)
    /\ UNCHANGED <<serverVars, rateVars, call, issueOrder, backoff>>
    /\ LET requested == q.callsigns
           Route(cs) == routes[cs]
           foundCallsigns == IF ok /\ eager THEN WithRoute(routes) ELSE {}
           missingCallsigns == requested \ foundCallsigns
       IN  /\ flightRoutes' =
                 IF ok THEN MapSet(flightRoutes, WithRoute(routes), Route)
                 ELSE flightRoutes
           /\ pending' =
                 IF missingCallsigns # {}
                 THEN Add(Remove(pending, q),
                          ReqRoutes("scraper", q.airport, missingCallsigns))
                 ELSE Remove(pending, q)
    /\ UNCHANGED <<currentAirportId, flights, flightTracks,
                   fetchedRoutesRef, selectedFlight, selectedFlightTrack,
                   hidden, lockedIcaosRef, sinceScan>>
    /\ Classified

\* fetchRoutes from the scraper response on; ok = FALSE is the {} that
\* matchFlightsByCallsigns returns on failure
fetchRoutesScraper(q, ok, matches) ==
    /\ q.kind = "scraper"
    /\ lastOp' = Op("scraper", q.airport, ok, <<>>)
    /\ UNCHANGED <<serverVars, rateVars, call, issueOrder, backoff>>
    /\ LET matched == { cs \in DOMAIN matches : matches[cs] # NULL }
           Route(cs) == ScraperRoute(matches[cs])
       IN  flightRoutes' =
              IF ok THEN MapSet(flightRoutes, matched, Route)
              ELSE flightRoutes
    /\ pending' = Remove(pending, q)
    /\ UNCHANGED <<currentAirportId, flights, flightTracks,
                   fetchedRoutesRef, selectedFlight, selectedFlightTrack,
                   hidden, lockedIcaosRef, sinceScan>>
    /\ Classified

----------------------------------------------------------------------------
(* Track store and selection *)

\* point counts per aircraft in a GET /adsb/tracks response
TrackResponses ==
    UNION { [S -> {1, MAX_TRACK_POINTS + 1}] : S \in SUBSET ICAO }

\* the track effect calling fetchAllTracks(): when the effect re-runs
\* (flights or isPageVisible changed) and from its 5 s interval
fetchAllTracksTick ==
    /\ fetchAllTracks(hidden, lockedIcaosRef, currentAirportId) # <<>>
    /\ pending' = Issue(pending, fetchAllTracks(hidden, lockedIcaosRef,
                                                currentAirportId))
    /\ Cardinality(pending') <= MaxInFlight
    /\ lastOp' = NoOp
    /\ UNCHANGED <<serverVars, rateVars, call, issueOrder, backoff>>
    /\ UNCHANGED <<currentAirportId, flights, flightTracks, flightRoutes,
                   fetchedRoutesRef, arrivals, departures, selectedFlight,
                   selectedFlightTrack, hidden, lockedIcaosRef, sinceScan>>

\* newTracks: buffers of at least 2 points, cut to the last MAX_TRACK_POINTS;
\* a track is modelled by its number of points
NewTracks(tracks) ==
    [icao \in { k \in DOMAIN tracks : tracks[k] >= 2 } |->
        Min(tracks[icao], MAX_TRACK_POINTS)]

\* fetchAllTracks from its await on
fetchAllTracksResponse(q, ok, tracks) ==
    /\ q.kind = "tracks"
    /\ lastOp' = Op("tracks", q.airport, ok, <<>>)
    /\ UNCHANGED <<serverVars, rateVars, call, issueOrder, backoff>>
    /\ flightTracks' = IF ok THEN NewTracks(tracks) ELSE flightTracks
    /\ pending' = Remove(pending, q)
    /\ UNCHANGED <<currentAirportId, flights, flightRoutes,
                   fetchedRoutesRef, arrivals, departures, selectedFlight,
                   selectedFlightTrack, hidden, lockedIcaosRef, sinceScan>>

\* selectFlight up to its await, or to its end when no request is made
selectFlight(flight) ==
    /\ selectedFlight' = flight
    /\ IF flight.icao24 = NULL
       THEN /\ selectedFlightTrack' = NoNum
            /\ pending' = pending
       ELSE IF flight.icao24 \in DOMAIN flightTracks
       THEN /\ selectedFlightTrack' = flightTracks[flight.icao24]
            /\ pending' = pending
       ELSE /\ selectedFlightTrack' = selectedFlightTrack
            /\ pending' = Add(pending,
                              ReqTrack(currentAirportId, flight.icao24))
    /\ Cardinality(pending') <= MaxInFlight
    /\ lastOp' = Op("selectFlight", currentAirportId, TRUE, <<>>)
    /\ UNCHANGED <<serverVars, rateVars, call, issueOrder, backoff>>
    /\ UNCHANGED <<currentAirportId, flights, flightTracks, flightRoutes,
                   fetchedRoutesRef, arrivals, departures, hidden,
                   lockedIcaosRef, sinceScan>>

\* selectFlight from the fetchTrack response on; points is path.length
selectFlightResponse(q, ok, points) ==
    /\ q.kind = "track"
    /\ lastOp' = Op("track", q.airport, ok, <<>>)
    /\ UNCHANGED <<serverVars, rateVars, call, issueOrder, backoff>>
    /\ selectedFlightTrack' = IF ok /\ points > 0 THEN points ELSE NoNum
    /\ pending' = Remove(pending, q)
    /\ UNCHANGED <<currentAirportId, flights, flightTracks, flightRoutes,
                   fetchedRoutesRef, arrivals, departures, selectedFlight,
                   hidden, lockedIcaosRef, sinceScan>>

----------------------------------------------------------------------------
(* Server: route cache and track cache (src/server/index.js) *)

\* the new Map after cache.set(key, entry): an existing key keeps its place
\* in the key order, a new key goes last
MapPut(cache, entry) ==
    IF \E i \in 1..Len(cache) : cache[i].key = entry.key
    THEN [i \in 1..Len(cache) |->
             IF cache[i].key = entry.key THEN entry ELSE cache[i]]
    ELSE Append(cache, entry)

MapHas(cache, key) == \E i \in 1..Len(cache) : cache[i].key = key

MapGet(cache, key) ==
    cache[CHOOSE i \in 1..Len(cache) : cache[i].key = key]

\* enforceMaxCacheSize: with more than maxSize entries, the first
\* size - maxSize keys of the key order are deleted
enforceMaxCacheSize(cache, maxSize) ==
    IF Len(cache) <= maxSize THEN cache
    ELSE SubSeq(cache, Len(cache) - maxSize + 1, Len(cache))

RouteEntry(callsign, route, fetchedAt) ==
    [key |-> callsign, route |-> route, fetchedAt |-> fetchedAt]

\* the cache check of fetchRoute
RouteCached(callsign) ==
    /\ MapHas(routeCache, callsign)
    /\ now - MapGet(routeCache, callsign).fetchedAt < ROUTE_CACHE_MAX_AGE

ServerOp(op, key, hit, upstream, data, age, forced) ==
    [op |-> op, key |-> key, hit |-> hit, upstream |-> upstream,
     data |-> data, age |-> age, forced |-> forced]

RouteFrame ==
    UNCHANGED <<trackCache, scheduleCache, scheduleCalls, calledAt>>

\* fetchRoute up to its return from the cache or to its await
fetchRoute(callsign) ==
    /\ IF RouteCached(callsign)
       THEN /\ serverOp' =
                  ServerOp("fetchRoute", callsign, TRUE, FALSE,
                           MapGet(routeCache, callsign).route,
                           now - MapGet(routeCache, callsign).fetchedAt,
                           FALSE)
            /\ UNCHANGED <<routeLookups, lookedUpAt>>
       ELSE /\ routeLookups' =
                  Add(routeLookups, [key |-> callsign, n |-> 1])
            /\ Cardinality(routeLookups') <= MaxInFlight
            /\ lookedUpAt' = [lookedUpAt EXCEPT ![callsign] = now]
            /\ serverOp' =
                  ServerOp("fetchRoute", callsign, FALSE, TRUE, NULL, NoNum,
                           FALSE)
    /\ UNCHANGED <<now, routeCache>>
    /\ RouteFrame
    /\ UNCHANGED <<clientVars, rateVars, call>>

\* fetchRoute from the hexdb.io response on: "found" is a response with a
\* route, "noroute" one without, "error" a rejected request
fetchRouteResponse(q, outcome) ==
    /\ routeLookups' = Remove(routeLookups, q)
    /\ routeCache' =
          IF outcome = "found"
          THEN MapPut(enforceMaxCacheSize(routeCache, MaxCacheSize),
                      RouteEntry(q.key, "RJTT-RJFF", now))
          ELSE IF outcome = "error"
          THEN MapPut(enforceMaxCacheSize(routeCache, MaxCacheSize),
                      RouteEntry(q.key, NULL, now))
          ELSE routeCache
    /\ serverOp' =
          ServerOp("fetchRouteResponse", q.key, FALSE, FALSE,
                   IF outcome = "found" THEN "RJTT-RJFF" ELSE NULL, NoNum,
                   FALSE)
    /\ UNCHANGED <<now, lookedUpAt>>
    /\ RouteFrame
    /\ UNCHANGED <<clientVars, rateVars, call>>

\* the loop body of updateTrackCache for the aircraft of the list that carry
\* hex, lat and lon: a buffer is created for an icao24 that has none
\* variant of SampleRecorded: a sample exactly one window after the last
\* one is recorded
SampleRecordedAtWindow(points, t) ==
    points = <<>> \/ t - points[Len(points)] >= TRACK_DEDUP

\* !lastPoint || now - lastPoint.time > 5000; a point is modelled by its time
SampleRecorded(points, t) ==
    points = <<>> \/ t - points[Len(points)] > TRACK_DEDUP

TrackEntry(icao, points) == [key |-> icao, points |-> points]

\* the loop body of updateTrackCache for one aircraft at time t
TrackCacheWith(cache, icao, t) ==
    LET created ==
            IF MapHas(cache, icao) THEN cache
            ELSE MapPut(enforceMaxCacheSize(cache, MaxCacheSize),
                        TrackEntry(icao, <<>>))
        points == MapGet(created, icao).points
    IN  IF SampleRecorded(points, t)
        THEN MapPut(created, TrackEntry(icao, Append(points, t)))
        ELSE created

RECURSIVE TrackCacheAfter(_, _, _)
TrackCacheAfter(cache, aircraft, t) ==
    IF aircraft = <<>> THEN cache
    ELSE TrackCacheAfter(TrackCacheWith(cache, Head(aircraft), t),
                         Tail(aircraft), t)

\* the aircraft lists of adsb.lol responses
AircraftLists == { <<"a1", "b2">>, <<"c3">> }

updateTrackCache(aircraft) ==
    /\ trackCache' = TrackCacheAfter(trackCache, aircraft, now)
    /\ serverOp' =
          ServerOp("updateTrackCache", Head(aircraft), FALSE, FALSE, NULL,
                   NoNum, FALSE)
    /\ UNCHANGED <<now, routeCache, routeLookups, scheduleCache,
                   scheduleCalls, lookedUpAt, calledAt>>
    /\ UNCHANGED <<clientVars, rateVars, call>>

\* variant of TrackPointFresh: no point is too old
TrackPointFreshAlways(point, t) == point <= t

\* now - p.time < TRACK_MAX_AGE
TrackPointFresh(point, t) ==
    t - point < TRACK_MAX_AGE

\* the sweep's loop over the entries: points filtered, empty buffers deleted
RECURSIVE TrackCacheSwept(_, _)
TrackCacheSwept(cache, t) ==
    IF cache = <<>> THEN <<>>
    ELSE LET Fresh(point) == TrackPointFresh(point, t)
             filtered == SelectSeq(Head(cache).points, Fresh)
             rest == TrackCacheSwept(Tail(cache), t)
         IN  IF filtered = <<>> THEN rest
             ELSE <<TrackEntry(Head(cache).key, filtered)>> \o rest

\* the setInterval callback of the track cache cleanup
trackCleanup ==
    /\ trackCache' = TrackCacheSwept(trackCache, now)
    \* hit: the sweep deleted a buffer
    /\ serverOp' =
          ServerOp("trackCleanup", NULL,
                   Len(TrackCacheSwept(trackCache, now)) < Len(trackCache),
                   FALSE, NULL, NoNum, FALSE)
    /\ UNCHANGED <<now, routeCache, routeLookups, scheduleCache,
                   scheduleCalls, lookedUpAt, calledAt>>
    /\ UNCHANGED <<clientVars, rateVars, call>>

\* the server's clock, by de-duplication windows: at most MaxWindows steps
\* after a full hour
TickWindow ==
    /\ now % ROUTE_CACHE_MAX_AGE < MaxWindows * TRACK_DEDUP
    /\ now' = now + TRACK_DEDUP
    /\ serverOp' = NoServerOp
    /\ UNCHANGED <<routeCache, routeLookups, trackCache, scheduleCache,
                   scheduleCalls, lookedUpAt, calledAt>>
    /\ UNCHANGED <<clientVars, rateVars, call>>

\* the server's clock, by route cache lifetimes
TickHour ==
    /\ now < MaxHours * ROUTE_CACHE_MAX_AGE
    /\ now' = now + ROUTE_CACHE_MAX_AGE
    /\ serverOp' = NoServerOp
    /\ UNCHANGED <<routeCache, routeLookups, trackCache, scheduleCache,
                   scheduleCalls, lookedUpAt, calledAt>>
    /\ UNCHANGED <<clientVars, rateVars, call>>

----------------------------------------------------------------------------
(* Server: schedule cache of the AeroDataBox module *)

\* a schedule snapshot: "empty" has no arrivals and no departures
Snapshots == {"empty", "d1"}

ScheduleEntry(airportCode, data, lastUpdate) ==
    [key |-> airportCode, data |-> data, lastUpdate |-> lastUpdate]

\* variant of ScheduleFresh: only the refresh floor keeps an entry
ScheduleFreshFloorOnly(cacheAge) ==
    cacheAge < MIN_REFRESH_INTERVAL

\* the two cache checks of getAirportSchedule
ScheduleFresh(cacheAge) ==
    cacheAge < CACHE_TTL \/ cacheAge < MIN_REFRESH_INTERVAL

ScheduleCall(airportCode, cont) ==
    [key |-> airportCode, t0 |-> now, cont |-> cont, n |-> 1]

ScheduleFrame ==
    UNCHANGED <<routeCache, routeLookups, trackCache, lookedUpAt>>

\* getAirportSchedule up to its return from the cache or to its await
getAirportSchedule(airportCode, forceRefresh) ==
    /\ LET cached == MapHas(scheduleCache, airportCode)
           cacheAge ==
               IF cached
               THEN now - MapGet(scheduleCache, airportCode).lastUpdate
               ELSE NoNum
       IN  IF cached /\ ~forceRefresh /\ ScheduleFresh(cacheAge)
           THEN /\ serverOp' =
                      ServerOp("getAirportSchedule", airportCode, TRUE,
                               FALSE,
                               MapGet(scheduleCache, airportCode).data,
                               cacheAge, forceRefresh)
                /\ UNCHANGED <<scheduleCalls, calledAt>>
           ELSE /\ scheduleCalls' =
                      Add(scheduleCalls,
                          ScheduleCall(airportCode, "schedule"))
                /\ Cardinality(scheduleCalls') <= MaxInFlight
                /\ calledAt' = [calledAt EXCEPT ![airportCode] = now]
                /\ serverOp' =
                      ServerOp("getAirportSchedule", airportCode, FALSE,
                               TRUE, NULL, cacheAge, forceRefresh)
    /\ UNCHANGED <<now, scheduleCache>>
    /\ ScheduleFrame
    /\ UNCHANGED <<clientVars, rateVars, call>>

\* getAirportSchedule from the AeroDataBox response on, and, for a call
\* made by matchFlight, matchFlight's read of the entry; outcome is a
\* snapshot, or "fail" for the null of a failed call
getAirportScheduleResponse(q, outcome) ==
    /\ scheduleCalls' = Remove(scheduleCalls, q)
    /\ LET data == IF outcome = "fail" THEN "empty" ELSE outcome
       IN  /\ scheduleCache' =
                 MapPut(scheduleCache, ScheduleEntry(q.key, data, q.t0))
           /\ serverOp' =
                 ServerOp(IF q.cont = "match" THEN "matchFlightResponse"
                          ELSE "getAirportScheduleResponse",
                          q.key, FALSE, FALSE, data, now - q.t0,
                          outcome = "fail")
    /\ UNCHANGED <<now, calledAt>>
    /\ ScheduleFrame
    /\ UNCHANGED <<clientVars, rateVars, call>>

\* matchFlight for one airport of its list, up to its return or to the
\* await of getAirportSchedule(airport, true)
matchFlight(airport) ==
    /\ LET cached == MapHas(scheduleCache, airport)
           needsFetch ==
               ~cached \/ MapGet(scheduleCache, airport).data = "empty"
       IN  IF needsFetch
           THEN /\ scheduleCalls' =
                      Add(scheduleCalls, ScheduleCall(airport, "match"))
                /\ Cardinality(scheduleCalls') <= MaxInFlight
                /\ calledAt' = [calledAt EXCEPT ![airport] = now]
                /\ serverOp' =
                      ServerOp("matchFlight", airport, FALSE, TRUE, NULL,
                               NoNum, TRUE)
           ELSE /\ serverOp' =
                      ServerOp("matchFlight", airport, TRUE, FALSE,
                               MapGet(scheduleCache, airport).data,
                               now - MapGet(scheduleCache, airport).lastUpdate,
                               FALSE)
                /\ UNCHANGED <<scheduleCalls, calledAt>>
    /\ UNCHANGED <<now, scheduleCache>>
    /\ ScheduleFrame
    /\ UNCHANGED <<clientVars, rateVars, call>>

\* the server's clock, by minutes
TickMinute ==
    /\ now < MaxMinutes * Minute
    \* a call in flight ends within its timeout, which is shorter than a
    \* step of the clock: it is not in flight over two steps
    /\ \A q \in scheduleCalls : now - q.t0 < CALL_TIMEOUT
    /\ now' = now + Minute
    /\ serverOp' = NoServerOp
    /\ UNCHANGED <<routeCache, routeLookups, trackCache, scheduleCache,
                   scheduleCalls, lookedUpAt, calledAt>>
    /\ UNCHANGED <<clientVars, rateVars, call>>

----------------------------------------------------------------------------
(* Server: monthly quota of the AeroDataBox module *)

monthlyLimit == MaxMonthlyCalls

QuotaFrame ==
    UNCHANGED <<now, routeCache, routeLookups, trackCache, scheduleCache,
                lookedUpAt, calledAt>>

\* callAeroDataBox up to its return at the limit check or to its await
\* (RAPIDAPI_KEY is configured); requests are sent until the month's
\* requests have passed the limit
callAeroDataBox(endpoint) ==
    /\ IF apiCallsThisMonth >= monthlyLimit
       THEN /\ serverOp' =
                  ServerOp("callAeroDataBox", endpoint, FALSE, FALSE, NULL,
                           NoNum, FALSE)
            /\ UNCHANGED <<scheduleCalls, sentThisMonth>>
       ELSE /\ sentThisMonth <= monthlyLimit
            /\ scheduleCalls' =
                  Add(scheduleCalls, ScheduleCall(endpoint, "call"))
            /\ Cardinality(scheduleCalls') <= MaxInFlight
            /\ sentThisMonth' = sentThisMonth + 1
            /\ serverOp' =
                  ServerOp("callAeroDataBox", endpoint, FALSE, TRUE, NULL,
                           NoNum, FALSE)
    /\ UNCHANGED <<apiCallsThisMonth, hourOfMonth>>
    /\ QuotaFrame
    /\ UNCHANGED <<clientVars, rateLimitStore, accepted, call>>

\* callAeroDataBox from its await on: a response is counted, an error is
\* caught and not counted
callAeroDataBoxResponse(q, ok) ==
    /\ scheduleCalls' = Remove(scheduleCalls, q)
    /\ apiCallsThisMonth' =
          IF ok THEN apiCallsThisMonth + 1 ELSE apiCallsThisMonth
    /\ serverOp' =
          ServerOp("callAeroDataBoxResponse", q.key, FALSE, FALSE, NULL,
                   NoNum, ~ok)
    /\ UNCHANGED <<hourOfMonth, sentThisMonth>>
    /\ QuotaFrame
    /\ UNCHANGED <<clientVars, rateLimitStore, accepted, call>>

\* the hourly setInterval callback, taken to fire as each hour begins: the
\* first hour of day 1 resets the count (and starts a month of requests)
checkMonthlyReset ==
    /\ hourOfMonth' = (hourOfMonth + 1) % MaxMonthHours
    /\ apiCallsThisMonth' =
          IF hourOfMonth' = 0 THEN 0 ELSE apiCallsThisMonth
    /\ sentThisMonth' = IF hourOfMonth' = 0 THEN 0 ELSE sentThisMonth
    /\ serverOp' = NoServerOp
    /\ UNCHANGED scheduleCalls
    /\ QuotaFrame
    /\ UNCHANGED <<clientVars, rateLimitStore, accepted, call>>

----------------------------------------------------------------------------
(* Server: rate limiter (src/server/index.js) *)

RateRecord(ip, count, resetTime) ==
    [key |-> ip, count |-> count, resetTime |-> resetTime]

\* the times of a list that lie within the last window at time t
WithinWindow(times, t) ==
    LET Recent(time) == t - time < RATE_LIMIT_WINDOW
    IN  SelectSeq(times, Recent)

\* the rateLimit middleware for a request of the client ip
rateLimit(ip) ==
    LET record ==
            IF ~MapHas(rateLimitStore, ip)
               \/ now > MapGet(rateLimitStore, ip).resetTime
            THEN RateRecord(ip, 0, now + RATE_LIMIT_WINDOW)
            ELSE MapGet(rateLimitStore, ip)
        count == record.count + 1
        passed == ~(count > MaxRequests)
    IN  /\ count <= MaxRequests + 1
        /\ rateLimitStore' =
              MapPut(rateLimitStore, RateRecord(ip, count, record.resetTime))
        /\ accepted' =
              [accepted EXCEPT ![ip] =
                  IF passed THEN Append(WithinWindow(@, now), now)
                  ELSE WithinWindow(@, now)]
        /\ serverOp' =
              ServerOp("rateLimit", ip, passed, FALSE, NULL, NoNum, FALSE)
        /\ UNCHANGED <<now, routeCache, routeLookups, trackCache,
                       scheduleCache, scheduleCalls, lookedUpAt, calledAt>>
        /\ UNCHANGED <<clientVars, call, quotaVars>>

\* the setInterval callback that deletes the records of windows that ended
RECURSIVE RateStoreSwept(_, _)
RateStoreSwept(store, t) ==
    IF store = <<>> THEN <<>>
    ELSE IF t > Head(store).resetTime
         THEN RateStoreSwept(Tail(store), t)
         ELSE <<Head(store)>> \o RateStoreSwept(Tail(store), t)

rateLimitCleanup ==
    /\ rateLimitStore' = RateStoreSwept(rateLimitStore, now)
    /\ serverOp' =
          ServerOp("rateLimitCleanup", NULL, FALSE, FALSE, NULL, NoNum,
                   FALSE)
    /\ UNCHANGED <<now, routeCache, routeLookups, trackCache, scheduleCache,
                   scheduleCalls, lookedUpAt, calledAt, accepted>>
    /\ UNCHANGED <<clientVars, call, quotaVars>>

\* the server's clock, by half windows of the rate limiter
TickHalfWindow ==
    /\ now < MaxHalfWindows * (RATE_LIMIT_WINDOW \div 2)
    /\ now' = now + RATE_LIMIT_WINDOW \div 2
    /\ serverOp' = NoServerOp
    /\ UNCHANGED <<routeCache, routeLookups, trackCache, scheduleCache,
                   scheduleCalls, lookedUpAt, calledAt>>
    /\ UNCHANGED <<clientVars, rateVars, call>>

----------------------------------------------------------------------------
(* Heading rule: the functions applied to drawn inputs *)

\* whole degrees; NoNum is a track the upstream record does not carry
Degrees == 0..359

\* true_track: ac.track || null in the gateway's /api/adsb/point handler
\* (0 and undefined are falsy)
trackOrNull(track) == IF track = NoNum \/ track = 0 THEN NoNum ELSE track

Call(fn, args, result) == [fn |-> fn, args |-> args, result |-> result]

\* the difference computed in isHeadingTowards for a heading and a bearing
ApplyAngleDiff ==
    /\ call.fn = "none"
    /\ \E heading \in Degrees, bearing \in Degrees :
          call' = Call("angleDiff", <<heading, bearing>>,
                       angleDiff(heading, bearing))
    /\ UNCHANGED <<clientVars, serverVars, rateVars>>

\* an adsb.lol aircraft with the given track at the given position, without
\* a callsign (so without a route): through the gateway, the scan's object
\* literal and the classification effect
ApplyClassify ==
    /\ call.fn = "none"
    /\ \E track \in Degrees \cup {NoNum}, pos \in Positions,
          airportId \in AirportIds :
          LET state == FeedState("a1", NULL, pos, trackOrNull(track), FALSE)
          IN  call' = Call("classify", <<track, pos, airportId>>,
                           ClassifyFlight(AdsbToFlight(state), <<>>,
                                          airportId))
    /\ UNCHANGED <<clientVars, serverVars, rateVars>>

\* the heading that classification receives for an adsb.lol aircraft with
\* the given track: through the gateway and the scan's object literal
ApplyGateway ==
    /\ call.fn = "none"
    /\ \E track \in Degrees \cup {NoNum}, pos \in Positions :
          LET state == FeedState("a1", NULL, pos, trackOrNull(track), FALSE)
          IN  call' = Call("heading", <<track, pos>>,
                           AdsbToFlight(state).heading)
    /\ UNCHANGED <<clientVars, serverVars, rateVars>>

----------------------------------------------------------------------------
(* Flight identifiers: strings as sequences of characters *)

MaxIdLen == 3

LowerLetters ==
    <<"a", "b", "c", "d", "e", "f", "g", "h", "i", "j", "k", "l", "m",
      "n", "o", "p", "q", "r", "s", "t", "u", "v", "w", "x", "y", "z">>
UpperLetters ==
    <<"A", "B", "C", "D", "E", "F", "G", "H", "I", "J", "K", "L", "M",
      "N", "O", "P", "Q", "R", "S", "T", "U", "V", "W", "X", "Y", "Z">>
Digits == {"0", "1", "2", "3", "4", "5", "6", "7", "8", "9"}

IsSpace(c) == c = " "
IsUpper(c) == \E i \in 1..Len(UpperLetters) : UpperLetters[i] = c
IsDigit(c) == c \in Digits
NotSpace(c) == ~IsSpace(c)

\* String.prototype.toUpperCase, character by character
UpperChar(c) ==
    IF \E i \in 1..Len(LowerLetters) : LowerLetters[i] = c
    THEN UpperLetters[CHOOSE i \in 1..Len(LowerLetters) : LowerLetters[i] = c]
    ELSE c
UpperCase(str) == [i \in 1..Len(str) |-> UpperChar(str[i])]

\* String.prototype.trim: leading and trailing whitespace removed
RECURSIVE TrimStart(_)
TrimStart(str) ==
    IF str # <<>> /\ IsSpace(Head(str)) THEN TrimStart(Tail(str)) ELSE str
RECURSIVE TrimEnd(_)
TrimEnd(str) ==
    IF str # <<>> /\ IsSpace(str[Len(str)])
    THEN TrimEnd(SubSeq(str, 1, Len(str) - 1)) ELSE str
TrimSpaces(str) == TrimEnd(TrimStart(str))

\* .replace(/\s+/g, '')
StripSpaces(str) == SelectSeq(str, NotSpace)

\* null as the result of a function on strings
NullString == <<"null">>

\* normalizeCallsign of MapContainer.tsx; the empty string is falsy
normalizeCallsign(callsign) ==
    IF callsign = <<>> THEN NullString
    ELSE UpperCase(StripSpaces(TrimSpaces(callsign)))

\* cleanCallsign of fetchRoute, the key of routeCache; null when fetchRoute
\* returns before it forms a key
cleanCallsign(callsign) ==
    IF callsign = <<>> \/ TrimSpaces(callsign) = <<>> THEN NullString
    ELSE UpperCase(TrimSpaces(callsign))

\* the key of fetchedRoutesRef and of the flightRoutes lookup on the client:
\* state.callsign?.trim() || null, f.callsign?.trim()
clientCallsignKey(callsign) ==
    IF callsign = <<>> \/ TrimSpaces(callsign) = <<>> THEN NullString
    ELSE TrimSpaces(callsign)

\* the IATA_TO_ICAO table: 2-character code :> 3-letter code
IATA_TO_ICAO ==
    (<<"J", "L">> :> <<"J", "A", "L">>)
    @@ (<<"N", "H">> :> <<"A", "N", "A">>)
    @@ (<<"B", "C">> :> <<"S", "K", "Y">>)
    @@ (<<"J", "Q">> :> <<"J", "J", "P">>)
    @@ (<<"M", "M">> :> <<"A", "P", "J">>)
    @@ (<<"G", "K">> :> <<"J", "J", "A">>)
    @@ (<<"N", "U">> :> <<"J", "T", "A">>)
    @@ (<<"H", "D">> :> <<"A", "D", "O">>)
    @@ (<<"7", "G">> :> <<"S", "F", "J">>)
    @@ (<<"F", "W">> :> <<"I", "B", "X">>)
    @@ (<<"D", "J">> :> <<"F", "D", "A">>)
    @@ (<<"M", "U">> :> <<"C", "E", "S">>)
    @@ (<<"C", "A">> :> <<"C", "C", "A">>)
    @@ (<<"C", "Z">> :> <<"C", "S", "N">>)
    @@ (<<"H", "U">> :> <<"C", "H", "H">>)
    @@ (<<"S", "C">> :> <<"C", "D", "G">>)
    @@ (<<"3", "U">> :> <<"C", "S", "C">>)
    @@ (<<"M", "F">> :> <<"C", "X", "A">>)
    @@ (<<"Z", "H">> :> <<"C", "S", "Z">>)
    @@ (<<"9", "C">> :> <<"C", "Q", "H">>)
    @@ (<<"K", "E">> :> <<"K", "A", "L">>)
    @@ (<<"O", "Z">> :> <<"A", "A", "R">>)
    @@ (<<"L", "J">> :> <<"J", "N", "A">>)
    @@ (<<"T", "W">> :> <<"T", "W", "B">>)
    @@ (<<"B", "X">> :> <<"A", "B", "L">>)
    @@ (<<"7", "C">> :> <<"J", "J", "A">>)
    @@ (<<"Z", "E">> :> <<"E", "S", "R">>)
    @@ (<<"R", "F">> :> <<"E", "O", "K">>)
    @@ (<<"B", "R">> :> <<"E", "V", "A">>)
    @@ (<<"C", "I">> :> <<"C", "A", "L">>)
    @@ (<<"I", "T">> :> <<"T", "T", "W">>)
    @@ (<<"A", "E">> :> <<"M", "D", "A">>)
    @@ (<<"B", "7">> :> <<"U", "I", "A">>)
    @@ (<<"C", "X">> :> <<"C", "P", "A">>)
    @@ (<<"H", "X">> :> <<"C", "R", "K">>)
    @@ (<<"U", "O">> :> <<"H", "K", "E">>)
    @@ (<<"S", "Q">> :> <<"S", "I", "A">>)
    @@ (<<"T", "G">> :> <<"T", "H", "A">>)
    @@ (<<"V", "N">> :> <<"H", "V", "N">>)
    @@ (<<"V", "J">> :> <<"V", "J", "C">>)
    @@ (<<"Q", "F">> :> <<"Q", "F", "A">>)
    @@ (<<"P", "R">> :> <<"P", "A", "L">>)
    @@ (<<"B", "I">> :> <<"R", "B", "A">>)
    @@ (<<"A", "A">> :> <<"A", "A", "L">>)
    @@ (<<"U", "A">> :> <<"U", "A", "L">>)
    @@ (<<"D", "L">> :> <<"D", "A", "L">>)
    @@ (<<"A", "F">> :> <<"A", "F", "R">>)
    @@ (<<"B", "A">> :> <<"B", "A", "W">>)
    @@ (<<"L", "H">> :> <<"D", "L", "H">>)
    @@ (<<"F", "X">> :> <<"F", "D", "X">>)
    @@ (<<"5", "X">> :> <<"U", "P", "S">>)

\* the codes that scheduled flight numbers and live callsigns are drawn with
DrawnCodes ==
    {<<"J", "L">>, <<"N", "H">>, <<"7", "G">>, <<"B", "7">>, <<"G", "K">>,
     <<"7", "C">>}

AllDigits(str) == str # <<>> /\ \A i \in 1..Len(str) : IsDigit(str[i])

\* the length of the airline code that
\* /^([A-Z]{2}|[A-Z]\d|\d[A-Z]|[A-Z]{3})(\d+)$/ captures, 0 without a match
AirlineCodeLength(normalized) ==
    IF /\ Len(normalized) >= 3
       /\ \/ IsUpper(normalized[1]) /\ IsUpper(normalized[2])
          \/ IsUpper(normalized[1]) /\ IsDigit(normalized[2])
          \/ IsDigit(normalized[1]) /\ IsUpper(normalized[2])
       /\ AllDigits(SubSeq(normalized, 3, Len(normalized)))
    THEN 2
    ELSE IF /\ Len(normalized) >= 4
            /\ \A i \in 1..3 : IsUpper(normalized[i])
            /\ AllDigits(SubSeq(normalized, 4, Len(normalized)))
         THEN 3
         ELSE 0

\* variant of convertIataToIcao: the table is not consulted
convertIataToIcaoNoTable(flightNumber) ==
    IF flightNumber = <<>> THEN NullString
    ELSE UpperCase(StripSpaces(TrimSpaces(flightNumber)))

convertIataToIcao(flightNumber) ==
    IF flightNumber = <<>> THEN NullString
    ELSE LET normalized == UpperCase(StripSpaces(TrimSpaces(flightNumber)))
             k == AirlineCodeLength(normalized)
             airlineCode == SubSeq(normalized, 1, k)
             flightNum == SubSeq(normalized, k + 1, Len(normalized))
         IN  IF k = 2 /\ airlineCode \in DOMAIN IATA_TO_ICAO
             THEN IATA_TO_ICAO[airlineCode] \o flightNum
             ELSE normalized

\* raw identifiers: every string of up to MaxIdLen of these characters
IdChars == {"j", "J", " ", "9"}
RECURSIVE StringsUpTo(_)
StringsUpTo(n) ==
    IF n = 0 THEN {<<>>}
    ELSE LET shorter == StringsUpTo(n - 1)
         IN  shorter \cup { Append(str, c) : str \in shorter, c \in IdChars }
RawIdentifiers == StringsUpTo(MaxIdLen)

\* the functions that form a key from an identifier
KeyOf(fn, callsign) ==
    CASE fn = "normalizeCallsign" -> normalizeCallsign(callsign)
      [] fn = "cleanCallsign" -> cleanCallsign(callsign)
      [] fn = "clientCallsignKey" -> clientCallsignKey(callsign)
KeyFunctions == {"normalizeCallsign", "cleanCallsign", "clientCallsignKey"}

\* a key formed for each of two identifiers
ApplyKey ==
    /\ call.fn = "none"
    /\ \E fn \in KeyFunctions, x \in RawIdentifiers, y \in RawIdentifiers :
          call' = Call(fn, <<x, y>>, <<KeyOf(fn, x), KeyOf(fn, y)>>)
    /\ UNCHANGED <<clientVars, serverVars, rateVars>>

\* scheduled flight numbers and live callsigns as the feeds write them
FlightDigits == {<<"9", "1", "0">>, <<"7">>}
Spaced(code, digits) ==
    { code \o digits, code \o <<" ">> \o digits, digits,
      [i \in 1..Len(code) |->
          IF IsUpper(code[i])
          THEN LowerLetters[CHOOSE j \in 1..Len(UpperLetters) :
                               UpperLetters[j] = code[i]]
          ELSE code[i]] \o digits,
      code \o digits \o <<" ">> }
ScheduledNumbers ==
    UNION { Spaced(code, digits) :
              code \in DrawnCodes \cup {<<"X", "X">>, <<"J", "A", "L">>},
              digits \in FlightDigits }
LiveCallsigns ==
    UNION { Spaced(code, digits) :
              code \in { IATA_TO_ICAO[c] : c \in DrawnCodes }
                       \cup {<<"X", "X">>},
              digits \in FlightDigits }

\* the marker rule: a scheduled flight matches a live aircraft when
\* convertIataToIcao(f.flightNumber) === normalizeCallsign(flight.callsign)
ApplyMatch ==
    /\ call.fn = "none"
    /\ \E flightNumber \in ScheduledNumbers, callsign \in LiveCallsigns :
          call' = Call("match", <<flightNumber, callsign>>,
                       normalizeCallsign(callsign) # NullString
                       /\ convertIataToIcao(flightNumber)
                             = normalizeCallsign(callsign))
    /\ UNCHANGED <<clientVars, serverVars, rateVars>>

\* two scheduled flight numbers with the same digits translated: every
\* code of the table and one it does not hold
ApplyTranslate ==
    /\ call.fn = "none"
    /\ \E code1 \in DOMAIN IATA_TO_ICAO \cup {<<"X", "X">>},
          code2 \in DOMAIN IATA_TO_ICAO \cup {<<"X", "X">>},
          digits \in FlightDigits :
          call' = Call("translate", <<code1 \o digits, code2 \o digits>>,
                       <<convertIataToIcao(code1 \o digits),
                         convertIataToIcao(code2 \o digits)>>)
    /\ UNCHANGED <<clientVars, serverVars, rateVars>>

----------------------------------------------------------------------------
(* Schedule matching on the server *)

\* String.prototype.includes
Includes(str, part) ==
    \E i \in 0..(Len(str) - Len(part)) :
        SubSeq(str, i + 1, i + Len(part)) = part

\* searchKey and flightKey of the scraper:
\* toUpperCase().replace(/\s/g, '')
searchKey(callsign) ==
    StripSpaces(UpperCase(callsign))

\* the test of matchFlights and matchFlightAcrossAirports on two keys
KeysMatch(flightKey, key) ==
    \/ flightKey = key
    \/ Includes(flightKey, key)
    \/ Includes(key, flightKey)

\* a scheduled flight of the scraper, and one of parseFlights, where
\* callsign is flight.callSign || flight.number?.replace(/\s/g, '')
ScrapedFlight(flightNumber) ==
    [flightNumber |-> flightNumber, callsign |-> NullString]
ParsedFlight(number, callSign) ==
    [flightNumber |-> number,
     callsign |-> IF callSign = <<>> THEN StripSpaces(number) ELSE callSign]

\* no flight found
NoMatch == [flightNumber |-> NullString, callsign |-> NullString]

\* the first flight of a list that passes a test, or no flight
FirstFlight(list, Test(_)) ==
    LET hits == { k \in 1..Len(list) : Test(list[k]) }
    IN  IF hits = {} THEN NoMatch
        ELSE list[CHOOSE k \in hits : \A j \in hits : k <= j]

\* matchFlightAcrossAirports over the flights of one airport (matchFlights
\* runs the same loop for each callsign)
matchFlightAcrossAirports(callsign, allFlights) ==
    IF callsign = <<>> THEN NoMatch
    ELSE LET key == searchKey(callsign)
             Test(flight) ==
                 /\ flight.flightNumber # <<>>
                 /\ KeysMatch(searchKey(flight.flightNumber), key)
         IN  FirstFlight(allFlights, Test)

\* arrivalMatch of matchFlight (AeroDataBox) for one airport's arrivals;
\* departureMatch is the same test on the departures
arrivalMatch(callsign, arrivals_) ==
    IF callsign = <<>> THEN NoMatch
    ELSE LET clean == StripSpaces(UpperCase(TrimSpaces(callsign)))
             Test(f) ==
                 \/ f.callsign = clean
                 \/ StripSpaces(f.flightNumber) = clean
         IN  FirstFlight(arrivals_, Test)

\* flight lists: one flight with any number, or two of these numbers
ListedNumbers == {<<"J", "9", "9">>, <<"J", "9">>}
ScrapedLists ==
    { <<ScrapedFlight(x)>> : x \in RawIdentifiers }
    \cup { <<ScrapedFlight(x), ScrapedFlight(y)>> :
             x \in ListedNumbers, y \in ListedNumbers }
ParsedLists ==
    { <<ParsedFlight(x, c)>> :
        x \in RawIdentifiers, c \in {<<>>, <<"J", "9">>} }

ApplyScraperMatch ==
    /\ call.fn = "none"
    /\ \E callsign \in RawIdentifiers, allFlights \in ScrapedLists :
          call' = Call("matchFlightAcrossAirports", <<callsign, allFlights>>,
                       matchFlightAcrossAirports(callsign, allFlights))
    /\ UNCHANGED <<clientVars, serverVars, rateVars>>

ApplyScheduleMatch ==
    /\ call.fn = "none"
    /\ \E callsign \in RawIdentifiers, arrivals_ \in ParsedLists :
          call' = Call("matchFlight", <<callsign, arrivals_>>,
                       arrivalMatch(callsign, arrivals_))
    /\ UNCHANGED <<clientVars, serverVars, rateVars>>

----------------------------------------------------------------------------
(* Specification *)

\* a feed response: the states of a successful one, or a failure
FeedResponse(Handler(_, _, _)) ==
    \E q \in Awaiting(pending) :
        \/ \E states \in FeedResponses : Handler(q, TRUE, states)
        \/ Handler(q, FALSE, <<>>)

ScanResponse == FeedResponse(scanAircraft)
UpdateResponse == FeedResponse(updatePositions)
RefreshAdsbResponse == FeedResponse(refreshDataAdsb)
RefreshOpenSkyResponse == FeedResponse(refreshDataOpenSky)
BoundsResponse == FeedResponse(fetchFlightsInBoundsResponse)

SwitchAirport == \E airportId \in AirportIds : setCurrentAirport(airportId)

\* rescans answered with airborne aircraft only
AirborneResponses ==
    { <<FeedState("a1", "JAL910 ", "N", 10, FALSE)>>,
      <<FeedState("a1", "JAL910 ", "S", 10, FALSE),
        FeedState("b2", "ANA242", "S", 10, FALSE)>>,
      <<FeedState("b2", NULL, "N", NoNum, FALSE)>> }

AirborneScanResponse ==
    \E q \in Awaiting(pending), states \in AirborneResponses :
        scanAircraft(q, TRUE, states)

RoutesResponse ==
    \E q \in Awaiting(pending) :
        /\ q.kind = "routes"
        /\ \/ \E routes \in RouteResponses(q.callsigns),
                 eager \in BOOLEAN :
                 fetchRoutesHexDB(q, TRUE, routes, eager)
           \/ fetchRoutesHexDB(q, FALSE, <<>>, TRUE)

ScraperResponse ==
    \E q \in Awaiting(pending) :
        /\ q.kind = "scraper"
        /\ \/ \E matches \in ScraperResponses(q.callsigns) :
                 fetchRoutesScraper(q, TRUE, matches)
           \/ fetchRoutesScraper(q, FALSE, <<>>)

TracksResponse ==
    \E q \in Awaiting(pending) :
        \/ \E tracks \in TrackResponses :
              fetchAllTracksResponse(q, TRUE, tracks)
        \/ fetchAllTracksResponse(q, FALSE, <<>>)

Select ==
    \E flight \in { flights[k] : k \in 1..Len(flights) } \cup {NoFlight} :
        selectFlight(flight)

SelectResponse ==
    \E q \in Awaiting(pending) :
        \/ \E points \in {0, 5} : selectFlightResponse(q, TRUE, points)
        \/ selectFlightResponse(q, FALSE, 0)

\* the scan/update scheduler with manual refresh, map-bounds fetch and
\* airport switch: everything that writes flights or lockedIcaosRef
NextSched ==
    \/ AdvanceTime
    \/ handleVisibilityChange
    \/ TimerTick
    \/ manualRescan
    \/ ScanResponse
    \/ UpdateResponse
    \/ refreshData
    \/ RefreshAdsbResponse
    \/ RefreshOpenSkyResponse
    \/ fetchFlightsInBounds
    \/ BoundsResponse

Spec == Init /\ [][NextSched]_vars

\* the scheduler with the airport switch
NextSwitch ==
    \/ AdvanceTime
    \/ handleVisibilityChange
    \/ TimerTick
    \/ manualRescan
    \/ ScanResponse
    \/ UpdateResponse
    \/ SwitchAirport

SpecSwitch == Init /\ [][NextSwitch]_vars

\* the aircraft list with the switch and the route lookups
NextRoutes ==
    \/ AirborneScanResponse
    \/ SwitchAirport
    \/ fetchRoutes
    \/ RoutesResponse
    \/ ScraperResponse

SpecRoutes == Init /\ [][NextRoutes]_vars

\* the polling loop alone: the clock, visibility, the interval callback and
\* the responses to its requests. The interval fires as long as the provider
\* is mounted and every request ends (response, error or timeout)
NextPoll ==
    \/ AdvanceTime
    \/ handleVisibilityChange
    \/ TimerTick
    \/ ScanResponse
    \/ UpdateResponse

SpecPoll ==
    /\ Init
    /\ [][NextPoll]_vars
    /\ WF_vars(TimerTick)
    /\ WF_vars(ScanResponse)
    /\ WF_vars(UpdateResponse)

\* every effect that makes a request, with the page going to the background
\* and coming back (within one rescan interval)
NextBackground ==
    \/ handleVisibilityChange
    \/ TimerTick
    \/ AirborneScanResponse
    \/ UpdateResponse
    \/ fetchAllTracksTick
    \/ TracksResponse
    \/ fetchRoutes
    \/ RoutesResponse
    \/ ScraperResponse

SpecBackground == Init /\ [][NextBackground]_vars

\* the polling loop with manual rescans, the order of its requests kept
NextOrder ==
    \/ AdvanceTime
    \/ TimerTick
    \/ manualRescan
    \/ ScanResponse
    \/ UpdateResponse

SpecOrder == InitOrder /\ [][NextOrder]_vars

\* schedule matching on the server, on drawn inputs
NextMatching ==
    \/ ApplyScraperMatch
    \/ ApplyScheduleMatch

SpecMatching == Init /\ [][NextMatching]_vars

\* the AeroDataBox calls and their monthly count
QuotaCall == \E endpoint \in ScheduleAirports : callAeroDataBox(endpoint)
QuotaResponse ==
    \E q \in Awaiting(scheduleCalls), ok \in BOOLEAN :
        callAeroDataBoxResponse(q, ok)

NextQuota ==
    \/ QuotaCall
    \/ QuotaResponse
    \/ checkMonthlyReset

SpecQuota == Init /\ [][NextQuota]_vars

\* one call of withExponentialBackoff with the maxRetries of its callers
\* (the default or another positive count); fn settles and timers fire
BackoffCall ==
    \E maxRetries \in 1..MaxRetries : withExponentialBackoff(maxRetries)
BackoffRejection == \E error \in FnErrors : fnRejects(error)

NextBackoff ==
    \/ BackoffCall
    \/ fnResolves
    \/ BackoffRejection
    \/ delayEnds

SpecBackoff ==
    /\ Init
    /\ [][NextBackoff]_vars
    /\ WF_vars(fnResolves \/ BackoffRejection)
    /\ WF_vars(delayEnds)

\* the carrier table on every pair of its codes
NextCarriers ==
    \/ ApplyTranslate
    \/ ApplyMatch

SpecCarriers == Init /\ [][NextCarriers]_vars

\* the heading rule on drawn inputs
NextHeading ==
    \/ ApplyAngleDiff
    \/ ApplyClassify
    \/ ApplyGateway

SpecHeading == Init /\ [][NextHeading]_vars

\* identifier normalization and matching on drawn inputs
NextIdentifiers ==
    \/ ApplyKey
    \/ ApplyMatch

SpecIdentifiers == Init /\ [][NextIdentifiers]_vars

\* the rate limiter
RateLimitedRequest == \E ip \in Clients : rateLimit(ip)

NextRateLimit ==
    \/ RateLimitedRequest
    \/ rateLimitCleanup
    \/ TickHalfWindow

SpecRateLimit == Init /\ [][NextRateLimit]_vars

\* selection of an aircraft, with the aircraft list and the bulk tracks
NextSelect ==
    \/ AirborneScanResponse
    \/ Select
    \/ SelectResponse
    \/ fetchAllTracksTick
    \/ TracksResponse

SpecSelect == Init /\ [][NextSelect]_vars

\* selection with everything that sets the aircraft list while the page is
\* in use: rescans, position updates and the airport switch
NextSelection ==
    \/ TimerTick
    \/ manualRescan
    \/ AirborneScanResponse
    \/ UpdateResponse
    \/ SwitchAirport
    \/ Select
    \/ SelectResponse

SpecSelection == Init /\ [][NextSelection]_vars

\* the server's route cache
RouteRequest == \E callsign \in Callsigns : fetchRoute(callsign)
RouteLookupResponse ==
    \E q \in Awaiting(routeLookups),
       outcome \in {"found", "noroute", "error"} :
          fetchRouteResponse(q, outcome)

NextCaches ==
    \/ RouteRequest
    \/ RouteLookupResponse
    \/ TickHour

SpecCaches == Init /\ [][NextCaches]_vars

\* the server's track buffers: samples, the sweep and the clock
TrackCacheUpdate == \E aircraft \in AircraftLists : updateTrackCache(aircraft)

NextTracks ==
    \/ TrackCacheUpdate
    \/ trackCleanup
    \/ TickWindow
    \/ TickHour

SpecTracks == Init /\ [][NextTracks]_vars

\* the schedule cache
ScheduleRequest ==
    \E airportCode \in ScheduleAirports, forceRefresh \in BOOLEAN :
        getAirportSchedule(airportCode, forceRefresh)
ScheduleResponse ==
    \E q \in Awaiting(scheduleCalls), outcome \in Snapshots \cup {"fail"} :
        getAirportScheduleResponse(q, outcome)
MatchRequest == \E airport \in ScheduleAirports : matchFlight(airport)

NextSchedule ==
    \/ ScheduleRequest
    \/ ScheduleResponse
    \/ MatchRequest
    \/ TickMinute

SpecSchedule == Init /\ [][NextSchedule]_vars

----------------------------------------------------------------------------
(* Properties *)

\* the state record of aircraft icao in a feed response, if present
InResponse(states, icao) == \E k \in 1..Len(states) : states[k].icao24 = icao
StateOf(states, icao) ==
    states[CHOOSE k \in 1..Len(states) : states[k].icao24 = icao]

IcaoList(fs) == [k \in 1..Len(fs) |-> fs[k].icao24]

\* C1: a position-only update leaves the locked icao24 set and the icao24s
\* of the aircraft list as they were (no aircraft added, none removed), and
\* changes no aircraft that is not locked.
C1_UpdateKeepsTrackedSet ==
    [][lastOp'.kind = "update" =>
          /\ lockedIcaosRef' = lockedIcaosRef
          /\ IcaoList(flights') = IcaoList(flights)
          /\ \A k \in 1..Len(flights) :
                flights[k].icao24 \notin lockedIcaosRef
                   => flights'[k] = flights[k]]_vars

\* an update was applied whose response carried an aircraft that is not
\* tracked and omitted one that is
C1_Witness ==
    /\ lastOp.kind = "update"
    /\ lastOp.ok
    /\ lockedIcaosRef = {"a1"}
    /\ IcaoSet(flights) = {"a1"}
    /\ InResponse(lastOp.resp, "b2")
    /\ StateOf(lastOp.resp, "b2").pos # NULL
    /\ ~InResponse(lastOp.resp, "a1")

\* the aircraft of a response that scanAircraft keeps: airborne, with a
\* position
Kept(states) ==
    { states[k].icao24 : k \in { j \in 1..Len(states) :
          states[j].pos # NULL /\ ~states[j].on_ground } }

\* C2 as stated: after every rescan the tracked set is exactly the set of
\* aircraft the rescan returned and the list has as many entries.
C2_EveryRescanReplaces ==
    [][(lastOp'.kind = "scan" /\ lastOp'.ok) =>
          /\ lockedIcaosRef' = Kept(lastOp'.resp)
          /\ IcaoSet(flights') = Kept(lastOp'.resp)
          /\ Len(flights') = Cardinality(Kept(lastOp'.resp))]_vars

\* C2 amended: after a rescan that returned at least one airborne aircraft
\* with a position, the tracked set and the list are exactly those aircraft.
C2_NonEmptyRescanReplaces ==
    [][(lastOp'.kind = "scan" /\ lastOp'.ok /\ Kept(lastOp'.resp) # {}) =>
          /\ lockedIcaosRef' = Kept(lastOp'.resp)
          /\ IcaoSet(flights') = Kept(lastOp'.resp)
          /\ Len(flights') = Cardinality(Kept(lastOp'.resp))]_vars

\* a rescan returned one airborne aircraft and one on the ground
C2_Witness ==
    /\ lastOp.kind = "scan"
    /\ lastOp.ok
    /\ Len(lastOp.resp) = 2
    /\ Kept(lastOp.resp) = {"b2"}
    /\ lockedIcaosRef = {"b2"}

\* C3: a rescan that fails or yields no aircraft leaves the locked set and
\* the aircraft list exactly as they were.
C3_FailedRescanKeepsTrackedSet ==
    [][(lastOp'.kind = "scan" /\ (~lastOp'.ok \/ Kept(lastOp'.resp) = {})) =>
          /\ lockedIcaosRef' = lockedIcaosRef
          /\ flights' = flights]_vars

\* a rescan failed while aircraft were tracked
C3_Witness ==
    /\ lastOp.kind = "scan"
    /\ ~lastOp.ok
    /\ lockedIcaosRef = {"a1", "b2"}
    /\ IcaoSet(flights) = {"a1", "b2"}

\* C4 as stated: a step that is not a rescan response changes neither the
\* locked set nor the set of aircraft in the list.
C4_OnlyRescanChangesMembers ==
    [][lastOp'.kind # "scan" =>
          /\ lockedIcaosRef' = lockedIcaosRef
          /\ IcaoSet(flights') = IcaoSet(flights)]_vars

\* C5 as stated: on an update, a locked aircraft present in the response
\* gets the response's position values, every other aircraft is unchanged.
C5_PresentGetsResponseValues ==
    [][(lastOp'.kind = "update" /\ lastOp'.ok) =>
          \A k \in 1..Len(flights) :
             LET f == flights[k]
             IN  IF f.icao24 \in lockedIcaosRef
                    /\ InResponse(lastOp'.resp, f.icao24)
                 THEN /\ flights'[k].pos = StateOf(lastOp'.resp, f.icao24).pos
                      /\ flights'[k].heading =
                            StateOf(lastOp'.resp, f.icao24).true_track
                 ELSE flights'[k] = f]_vars

\* C5 amended: on an update, a locked aircraft present in the response with
\* a position gets the response's position values; an aircraft that is
\* omitted, or whose record has no position, is unchanged.
C5_PositionedGetsResponseValues ==
    [][(lastOp'.kind = "update" /\ lastOp'.ok) =>
          /\ Len(flights') = Len(flights)
          /\ \A k \in 1..Len(flights) :
                LET f == flights[k]
                IN  IF /\ f.icao24 \in lockedIcaosRef
                       /\ InResponse(lastOp'.resp, f.icao24)
                       /\ StateOf(lastOp'.resp, f.icao24).pos # NULL
                    THEN /\ flights'[k].icao24 = f.icao24
                         /\ flights'[k].pos =
                               StateOf(lastOp'.resp, f.icao24).pos
                         /\ flights'[k].heading =
                               StateOf(lastOp'.resp, f.icao24).true_track
                    ELSE flights'[k] = f]_vars

\* both aircraft tracked, the update carried a1 only: a1 has the response's
\* position, b2 is still listed
C5_Witness ==
    /\ lastOp.kind = "update"
    /\ lastOp.ok
    /\ lockedIcaosRef = {"a1", "b2"}
    /\ IcaoSet(flights) = {"a1", "b2"}
    /\ Len(lastOp.resp) = 1
    /\ lastOp.resp[1].icao24 = "a1"
    /\ FindFlight(flights, "a1").pos = "N"
    /\ FindFlight(flights, "b2").pos = "S"

\* how often aircraft icao is listed
Count(list, icao) ==
    Cardinality({ k \in 1..Len(list) : list[k].icao24 = icao })
CountIcao(list, icao) ==
    Cardinality({ k \in 1..Len(list) : list[k] = icao })

\* C6 as stated: every aircraft of the list is in exactly one of the two
\* lists and the two counts sum to the size of the list, for the
\* classification effect and for the earlier one.
C6_ClassifiedExactlyOnce ==
    LET earlierArrivals ==
            InferredEarlier("arrival", flights, flightRoutes,
                            currentAirportId)
        earlierDepartures ==
            InferredEarlier("departure", flights, flightRoutes,
                            currentAirportId)
    IN  /\ Len(arrivals) + Len(departures) = Len(flights)
        /\ \A icao \in IcaoSet(flights) :
              Count(arrivals, icao) + Count(departures, icao) = 1
        /\ Len(earlierArrivals) + Len(earlierDepartures) = Len(flights)
        /\ \A icao \in IcaoSet(flights) :
              CountIcao(earlierArrivals, icao)
                 + CountIcao(earlierDepartures, icao) = 1

Listed(list, icao) == \E k \in 1..Len(list) : list[k].icao24 = icao

\* C7: for every aircraft of the list, a route whose destination matches
\* the airport puts it in the arrivals; else a route whose origin matches
\* puts it in the departures; else the heading decides (away: departure,
\* towards or unknown: arrival).
C7_RouteBeforeHeading ==
    \A k \in 1..Len(flights) :
       LET f == flights[k]
           has == f.callsign # NULL /\ f.callsign \in DOMAIN flightRoutes
           inArrivals ==
               Listed(arrivals, f.icao24) /\ ~Listed(departures, f.icao24)
           inDepartures ==
               Listed(departures, f.icao24) /\ ~Listed(arrivals, f.icao24)
       IN  IF has /\ matchesAirport(flightRoutes[f.callsign].destination,
                                    currentAirportId)
           THEN inArrivals
           ELSE IF has /\ matchesAirport(flightRoutes[f.callsign].origin,
                                         currentAirportId)
           THEN inDepartures
           ELSE IF isHeadingTowards(f.pos, f.heading, currentAirportId)
                      = "false"
           THEN inDepartures
           ELSE inArrivals

\* under tokyo an aircraft heading away from the airport has a route from
\* RJAA to RJTT and is listed as an arrival
C7_Witness ==
    /\ currentAirportId = "tokyo"
    /\ \E k \in 1..Len(flights) :
          /\ flights[k].callsign = "JAL910"
          /\ isHeadingTowards(flights[k].pos, flights[k].heading,
                              currentAirportId) = "false"
          /\ "JAL910" \in DOMAIN flightRoutes
          /\ flightRoutes["JAL910"] =
                [origin |-> "RJAA", destination |-> "RJTT"]
          /\ Listed(arrivals, flights[k].icao24)

\* the poll requests (rescan, position update) in flight
PollRequests == { q \in pending : q.kind \in {"scan", "update"} }

\* C8 as stated: a timer fire that finds a rescan or position update of the
\* tracked airport still awaiting its response starts no request.
C8_SingleFlight ==
    [][(lastOp'.kind = "timer"
          /\ \E q \in PollRequests : q.airport = currentAirportId) =>
          pending' = pending]_vars

\* C9 as stated: the airport switch empties the locked set together with
\* the airport-scoped stores.
C9_SwitchClearsEverything ==
    [][(lastOp'.kind = "setCurrentAirport"
          /\ lastOp'.airport # currentAirportId') =>
          /\ lockedIcaosRef' = {}
          /\ flights' = <<>>
          /\ flightRoutes' = <<>>
          /\ fetchedRoutesRef' = {}
          /\ flightTracks' = <<>>
          /\ arrivals' = <<>>
          /\ departures' = <<>>
          /\ selectedFlight' = NoFlight
          /\ selectedFlightTrack' = NoNum]_vars

\* C10 as stated: a response to a request issued under another airport than
\* the current one changes neither the tracked set, nor the list, nor the
\* route map.
C10_StaleResponseDiscarded ==
    [][(lastOp'.kind \in {"scan", "update", "routes", "scraper"}
          /\ lastOp'.airport # currentAirportId) =>
          /\ lockedIcaosRef' = lockedIcaosRef
          /\ flights' = flights
          /\ flightRoutes' = flightRoutes]_vars

\* C11 as stated: the route cache holds at most its maximum number of
\* entries and the track cache at most its maximum number of buffers.
C11_CachesWithinCapacity ==
    /\ Len(routeCache) <= MaxCacheSize
    /\ Len(trackCache) <= MaxCacheSize

CacheKeys(cache) == { cache[i].key : i \in 1..Len(cache) }

\* C12 as stated: an entry that an insertion evicts from the route cache
\* has an insertion timestamp no newer than that of any entry kept.
C12_EvictsOldestInserted ==
    [][\A i, j \in 1..Len(routeCache) :
          (routeCache[i].key \notin CacheKeys(routeCache')
             /\ routeCache[j].key \in CacheKeys(routeCache'))
          => routeCache[i].fetchedAt <= routeCache[j].fetchedAt]_vars

\* C13 as stated: a callsign is requested from hexdb.io only when it was
\* not requested before within the lifetime of a cache entry.
C13_OneLookupPerLifetime ==
    [][(serverOp'.op = "fetchRoute" /\ serverOp'.upstream) =>
          \/ lookedUpAt[serverOp'.key] = NoNum
          \/ now - lookedUpAt[serverOp'.key] >= ROUTE_CACHE_MAX_AGE]_vars

\* C14 as stated: an AeroDataBox call that fails or returns no data leaves
\* a non-empty snapshot of the airport in the cache.
C14_FailedFetchKeepsSnapshot ==
    [][(serverOp'.op \in {"getAirportScheduleResponse",
                          "matchFlightResponse"}
          /\ serverOp'.data = "empty"
          /\ MapHas(scheduleCache, serverOp'.key)
          /\ MapGet(scheduleCache, serverOp'.key).data # "empty") =>
          MapGet(scheduleCache', serverOp'.key).data =
             MapGet(scheduleCache, serverOp'.key).data]_vars

C16_CallsAFloorApart ==
    [][(serverOp'.op \in {"getAirportSchedule", "matchFlight"}
          /\ serverOp'.upstream) =>
          \/ calledAt[serverOp'.key] = NoNum
          \/ now - calledAt[serverOp'.key] >= MIN_REFRESH_INTERVAL]_vars

\* C17 as stated: data served from a cache entry comes from an entry
\* younger than the cache's TTL.
C17_ExpiredNeverServed ==
    [][(serverOp'.hit /\ serverOp'.op \in {"getAirportSchedule",
                                           "matchFlight"}
           => serverOp'.age < CACHE_TTL)
       /\ (serverOp'.hit /\ serverOp'.op = "fetchRoute"
           => serverOp'.age < ROUTE_CACHE_MAX_AGE)]_vars

----------------------------------------------------------------------------
(* Polling loop and visibility *)

\* C18: while the page stays visible, a rescan that failed or came back
\* empty with nothing tracked is followed by another rescan
C18_FailedRescanRetried ==
    [](~hidden) =>
        ((lastOp.kind = "scan" /\ lockedIcaosRef = {})
            ~> (\E q \in pending : q.kind = "scan"))

\* C19: no step taken while the page is hidden adds a request
C19_NoRequestWhileHidden ==
    [][hidden => \A q \in pending' : q \in pending]_vars

\* C20: while the page stays hidden the elapsed part of the rescan interval
\* does not grow
C20_HiddenTimeNotCounted ==
    [][(hidden /\ hidden') => sinceScan' <= sinceScan]_vars

----------------------------------------------------------------------------
(* Heading rule *)

\* C21: an aircraft without a route whose reported track is known is an
\* arrival exactly when the wrapped difference between the track and the
\* bearing to the airport is under 60 degrees
C21_HeadingRule ==
    (call.fn = "classify" /\ call.args[1] # NoNum) =>
        (call.result = "arrival"
            <=> angleDiff(call.args[1],
                          BearingTo(call.args[2], call.args[3])) < 60)

\* the smaller of the two angular differences, from its definition
SmallerDifference(h, b) ==
    LET d == (h - b + 360) % 360
    IN  Min(d, 360 - d)

\* C22: the difference of a heading and a bearing is in [0, 180], is the
\* smaller of the two angular differences and is the same for (h, b) and
\* (b, h)
C22_DifferenceWraps ==
    call.fn = "angleDiff" =>
        /\ call.result \in 0..180
        /\ call.result = SmallerDifference(call.args[1], call.args[2])
        /\ call.result = angleDiff(call.args[2], call.args[1])

\* heading 10 against bearing 350 gives 20
C22_Witness ==
    /\ call.fn = "angleDiff"
    /\ call.args = <<10, 350>>
    /\ call.result = 20

\* C23: every aircraft of the list is in exactly one of the two lists, and
\* one without a usable route and without a heading is in the arrivals
C23_UnknownHeadingArrives ==
    \A k \in 1..Len(flights) :
       LET f == flights[k]
           has == f.callsign # NULL /\ f.callsign \in DOMAIN flightRoutes
           usable ==
               has /\ (matchesAirport(flightRoutes[f.callsign].destination,
                                       currentAirportId)
                        \/ matchesAirport(flightRoutes[f.callsign].origin,
                                          currentAirportId))
       IN  /\ Listed(arrivals, f.icao24) # Listed(departures, f.icao24)
           /\ (~usable /\ f.heading = NoNum)
                 => (Listed(arrivals, f.icao24)
                     /\ ~Listed(departures, f.icao24))

\* an aircraft without callsign and heading is listed as an arrival
C23_Witness ==
    \E k \in 1..Len(flights) :
       /\ flights[k].heading = NoNum
       /\ flights[k].callsign = NULL
       /\ Listed(arrivals, flights[k].icao24)
       /\ ~Listed(departures, flights[k].icao24)

----------------------------------------------------------------------------
(* Flight identifiers *)

\* an identifier without its whitespace, in lower case
Fold(str) ==
    LET LowerChar(c) ==
            IF IsUpper(c)
            THEN LowerLetters[CHOOSE i \in 1..Len(UpperLetters) :
                                 UpperLetters[i] = c]
            ELSE c
        kept == SelectSeq(str, NotSpace)
    IN  [i \in 1..Len(kept) |-> LowerChar(kept[i])]

\* C24: for an identifier that is not blank, forming a key is idempotent,
\* and two identifiers that differ only in whitespace or letter case get the
\* same key, for every function that forms a key
C24_OneKeyPerIdentifier ==
    (call.fn \in KeyFunctions /\ Fold(call.args[1]) # <<>>) =>
        /\ KeyOf(call.fn, call.result[1]) = call.result[1]
        /\ Fold(call.args[1]) = Fold(call.args[2])
              => call.result[1] = call.result[2]

\* C25: a scheduled number made of a 2-character code of the table and
\* digits matches the live callsign made of the mapped 3-character code and
\* the same digits
C25_TableCodeMatches ==
    call.fn = "match" =>
        \A code \in DrawnCodes, digits \in FlightDigits :
            (/\ Fold(call.args[1]) = Fold(code \o digits)
             /\ Fold(call.args[2]) = Fold(IATA_TO_ICAO[code] \o digits))
               => call.result

\* scheduled JL910 matches live JAL910
C25_Witness ==
    /\ call.fn = "match"
    /\ call.args = << <<"J", "L", "9", "1", "0">>,
                      <<"J", "A", "L", "9", "1", "0">> >>
    /\ call.result

----------------------------------------------------------------------------
(* Track buffers *)

\* C26: any two consecutive samples of a buffer are more than the
\* de-duplication window apart
C26_SamplesAWindowApart ==
    \A i \in 1..Len(trackCache) :
       \A k \in 1..(Len(trackCache[i].points) - 1) :
          trackCache[i].points[k + 1] - trackCache[i].points[k] > TRACK_DEDUP

\* a sample for c3 exactly one window after its last recorded one was
\* dropped, and its buffer holds two samples
C26_Witness ==
    /\ serverOp.op = "updateTrackCache"
    /\ serverOp.key = "c3"
    /\ \E i \in 1..Len(trackCache) :
          /\ trackCache[i].key = "c3"
          /\ Len(trackCache[i].points) >= 2
          /\ now - trackCache[i].points[Len(trackCache[i].points)]
                = TRACK_DEDUP

\* C27: no track buffer holds more points than the cap
C27_BufferWithinCap ==
    \A i \in 1..Len(trackCache) :
       Len(trackCache[i].points) <= MaxTrackPoints

\* C28: after a sweep every buffer left has a newest point younger than
\* the maximum age
C28_SweepRemovesStale ==
    [][serverOp'.op = "trackCleanup" =>
         \A i \in 1..Len(trackCache') :
            /\ trackCache'[i].points # <<>>
            /\ now' - trackCache'[i].points[Len(trackCache'[i].points)]
                  < TRACK_MAX_AGE]_vars

\* a sweep removed a buffer whose newest point was too old and kept a
\* younger one
C28_Witness ==
    /\ serverOp.op = "trackCleanup"
    /\ serverOp.hit
    /\ Len(trackCache) = 1
    /\ now - trackCache[1].points[1] < TRACK_MAX_AGE

----------------------------------------------------------------------------
(* Selection *)

\* C29: selecting again the aircraft that is selected and whose track is
\* resolved adds no track request
C29_ResolvedTrackCached ==
    [][(/\ lastOp'.kind = "selectFlight"
        /\ selectedFlight.icao24 # NULL
        /\ selectedFlight'.icao24 = selectedFlight.icao24
        /\ selectedFlightTrack # NoNum)
         => \A q \in pending' : q \in pending]_vars

----------------------------------------------------------------------------
(* Rate limiter *)

\* C30: of the requests of one client within any one window's length, at
\* most the maximum is passed on
C30_RollingWindow ==
    \A ip \in Clients : Len(accepted[ip]) <= MaxRequests

\* C31: feed responses are applied in the order of their requests: the
\* response to a position update issued before a rescan, arriving right
\* after that rescan replaced the aircraft list, changes nothing in the list.
C31_UpdateNeverOverwritesLaterRescan ==
    [][(/\ lastOp.kind = "scan"
        /\ lastOp'.kind = "update"
        /\ Overtaken(issueOrder') < Overtaken(issueOrder))
       => flights' = flights]_vars

\* C32: schedule matching returns a scheduled flight for a live identifier
\* only if the two are equal once normalized (whitespace removed, one letter
\* case) or once translated through the carrier table; a prefix or substring
\* of a flight number is no match. (Stated for identifiers that are not
\* blank.)
C32_MatchOnlyEqualForms ==
    (/\ call.fn \in {"matchFlightAcrossAirports", "matchFlight"}
     /\ Fold(call.args[1]) # <<>>
     /\ call.result # NoMatch)
    => LET callsign == call.args[1]
           found == call.result
       IN  \/ Fold(callsign) = Fold(found.flightNumber)
           \/ Fold(callsign) = Fold(found.callsign)
           \/ convertIataToIcao(callsign) =
                 convertIataToIcao(found.flightNumber)

\* C33: an aircraft whose reported track is 0 (due north) reaches
\* classification with the known heading 0, as every aircraft with a
\* reported track reaches it with that track.
C33_TrackZeroIsKnown ==
    (call.fn = "heading" /\ call.args[1] # NoNum)
        => call.result = call.args[1]

\* C34: the AeroDataBox requests sent in one month never exceed the monthly
\* limit, with several requests in flight and with failing requests.
C34_WithinMonthlyLimit ==
    sentThisMonth <= monthlyLimit

\* C35: withExponentialBackoff calls the wrapped operation at most maxRetries
\* times; it returns the result of the first call that succeeds and calls no
\* more; after maxRetries failures in a row it throws the last error; and a
\* call of it always ends.
BackoffSafe ==
    /\ backoff.calls <= backoff.maxRetries
    /\ backoff.pc = "returned" =>
          /\ backoff.result = backoff.calls
          /\ Len(backoff.errors) = backoff.calls - 1
    /\ backoff.pc = "thrown" =>
          /\ Len(backoff.errors) = backoff.maxRetries
          /\ backoff.calls = backoff.maxRetries
          /\ backoff.thrown = backoff.errors[Len(backoff.errors)]

C35_BackoffBoundedAndEnds ==
    /\ []BackoffSafe
    /\ [][backoff.pc \in {"returned", "thrown"} => backoff' = backoff]_vars
    /\ (backoff.pc # "idle") ~> (backoff.pc \in {"returned", "thrown"})

C35_Witness ==
    /\ backoff.pc = "thrown"
    /\ backoff.maxRetries = 3
    /\ backoff.calls = 3
    /\ backoff.thrown = Error("Rate limited", 200)

\* C36: once the effects of a change of the aircraft list have run, a
\* selected aircraft is an aircraft of the list; a step in which the selected
\* aircraft leaves the list clears the selection and the selected track.
C36_SelectedIsListed ==
    /\ [](selectedFlight.icao24 # NULL =>
             \E k \in 1..Len(flights) : flights[k] = selectedFlight)
    /\ [][(/\ selectedFlight.icao24 # NULL
           /\ selectedFlight.icao24 \notin IcaoSet(flights'))
          => (selectedFlight' = NoFlight /\ selectedFlightTrack' = NoNum)]_vars

\* a rescan has just replaced the list, the aircraft whose track request is
\* still awaited (it was selected) is no longer in it, nothing is selected
C36_Witness ==
    /\ lastOp.kind = "scan"
    /\ flights # <<>>
    /\ selectedFlight = NoFlight
    /\ selectedFlightTrack = NoNum
    /\ \E q \in pending :
          q.kind = "track" /\ q.icao \notin IcaoSet(flights)

\* C37: two scheduled flight numbers with the same digits and different
\* 2-character carrier codes never translate to the same identifier.
C37_CarriersNotMerged ==
    (call.fn = "translate" /\ call.args[1] # call.args[2])
        => call.result[1] # call.result[2]

====
